---- MODULE Spec2Model ----
(***************************************************************************)
(* Acquisition engine of FusionMediaProvider: the search aggregator        *)
(* (MediaDownloader::search), the single transfer                          *)
(* (MediaDownloader::download_item) and the bounded batch schedulers       *)
(* (MediaDownloader::download_items, DownloadManager batch downloads),     *)
(* the quality resolvers (get_image_url, get_video_url), the resumable     *)
(* transfer of DownloadManager and the batch progress record of            *)
(* download_items_with_batch_progress.                                     *)
(***************************************************************************)
EXTENDS Integers, Sequences, FiniteSets, TLC

\* ------------------------------------------------------------------ bounds
MaxProviders == 3
MaxItems == 2
MaxConcurrent == 2
MaxChunks == 1
MaxVariants == 3
MaxBytes == 3
MaxRuns == 2
MaxBatch == 3
MaxTicks == 5
TickMs == 50
MaxParts == 2
MaxSecs == 2
MaxTitle == 2

\* if last_update.elapsed().as_millis() >= 100
ThrottleMs == 100

ProviderNames == {"Pixabay", "Pexels"}

VARIABLES
  op,            \* the caller-facing operation in progress
  \* ---- MediaDownloader::search
  providers,     \* self.providers: registered provider names, in order
  params,        \* SearchParams of the call
  spc,           \* position of search: "start" | "joining" | "done"
  calls,         \* per provider: the calls it received
  outcomes,      \* per provider: <<>> while running, else <<result>>
  finishOrder,   \* provider indices in the order their calls finished
  sresult,       \* <<>> until search returns, then <<Result>>
  \* ---- download_items / batch_download_photos
  max_concurrent,\* Semaphore::new(max_concurrent)
  items,         \* the input batch
  bpc,           \* position of the batch call: "start" | "joining" | "done"
  permits,       \* free permits of the semaphore
  waiters,       \* FIFO queue of the futures waiting for a permit
  pc,            \* per item: position of its future
  emitted,       \* per item: states of the snapshots notify_progress emitted
  chunks,        \* per item: chunks written so far
  result,        \* per item: <<>> until its future finished, else <<Result>>
  transfers,     \* per item: number of times its transfer was entered
  requests,      \* per item: HTTP requests its transfer sent
  status,        \* per item: the HTTP response: "none" | "error" | "fail" | "ok"
  overtaken,     \* some future finished before a future of lower index did
  bresult,       \* <<>> until the batch call returns, then <<list of Results>>
  \* ---- get_image_url / get_video_url
  urls,          \* item.urls: thumbnail, medium, large, original, video_files
  quality,       \* config.image_quality or config.video_quality
  resolved,      \* <<>> until the resolver returned, then <<Result>>
  \* ---- download_file / the task body of batch_download_photos
  file,          \* the file at path: <<>> when missing, else <<its bytes>>
  callback,      \* progress_callback is Some
  fpc,           \* position of the call: "start" | "request" | "stream" | "done"
  headers,       \* the Range header of the request: <<>> or <<header>>
  range_start,   \* the local range_start
  response,      \* <<>> until the response arrived, then <<response>>
  total_size,    \* the local total_size
  mode,          \* how the destination was opened: "none" | "append" | "create"
  downloaded,    \* the local downloaded
  reported,      \* the calls cb(downloaded, total_size) made so far
  fresult,       \* <<>> until the call returned, then <<Result>>
  runs,          \* invocations for this destination so far
  before,        \* the file as the current invocation found it
  interrupted,   \* the invocation before this one ended in mid-stream
  \* ---- download_items_with_batch_progress
  pitems,        \* the ids of the items of the batch, in input order
  plimit,        \* config.max_concurrent
  ppc,           \* position of the call: "joining" | "done"
  phase,         \* per item: how far its download_item got
                 \* ("completed": it returned Ok, "ended": it returned Err)
  percentage,    \* per item: progress.percentage of its download_item
  batch_progress,\* the BatchDownloadProgress behind the Mutex
  last,          \* <<>> or <<the snapshot of the latest callback call>>
  lowered,       \* that call left overall_percentage lower than it found it
  \* ---- download_item, one call against the clock
  ipc,           \* position of the call: "start" | "mkdir" | ... | "done"
  now,           \* Instant::now(), in milliseconds since the call began
  last_update,   \* the local last_update
  notified,      \* the snapshots notify_progress handed to the callback
  output,        \* the file at output_path
  sent,          \* requests sent by the call
  http,          \* response.status(), 0 before the response
  parts,         \* the chunks the stream yielded so far, in order
  downloaded_bytes, \* the local counter downloaded of download_item
  ireturn,       \* <<>> until the call returned, then <<Result>>
  \* ---- DownloadProgress under calculate_percentage / calculate_eta
  prog,          \* the DownloadProgress of the transfer
  cpc,           \* "start" | "loop" (after a chunk) | "final" (after the loop)
  \* ---- generate_filename
  nitem,         \* the MediaItem
  use_original_names, \* config.use_original_names
  filename,      \* <<>> or <<the name of the first run>>
  again,         \* <<>> or <<the name of the second run>>
  \* ---- add_provider_by_name_and_apikey / search_from_provider /
  \* ---- download_by_id
  target,        \* the provider_name argument
  api_key,       \* the api_key argument
  pexels,        \* the crate is built with feature "pexels"
  qpc,           \* position of the call: "start" | "asked" | "transfer" | "done"
  cursor,        \* index of the provider the call is at
  asked,         \* the provider calls made, in order
  answers,       \* what the providers called answered, in order
  started,       \* download_item calls started
  qreturn,       \* <<>> until the call returned, then <<Result>>
  \* ---- the progress callback of download_items_with_batch_progress
  todo,          \* per transfer, the item snapshots it has yet to notify
  lpc,           \* per transfer, its position in the callback
  mutex,         \* the transfer that holds the MutexGuard, 0 when free
  shared,        \* the BatchDownloadProgress behind the Mutex
  applied,       \* the item snapshots in the order the lock was taken
  delivered      \* the batch snapshots handed to batch_callback, in order

searchVars == <<providers, params, spc, calls, outcomes, finishOrder, sresult>>
batchVars == <<max_concurrent, items, bpc, permits, waiters, pc, emitted,
               chunks, result, transfers, requests, status, overtaken, bresult>>
vars == <<op, providers, params, spc, calls, outcomes, finishOrder, sresult,
          max_concurrent, items, bpc, permits, waiters, pc, emitted,
          chunks, result, transfers, requests, status, overtaken, bresult,
          urls, quality, resolved,
          file, callback, fpc, headers, range_start, response, total_size,
          mode, downloaded, reported, fresult, runs, before, interrupted,
          pitems, plimit, ppc, phase, percentage, batch_progress, last,
          lowered,
          ipc, now, last_update, notified, output, sent, http, parts,
          downloaded_bytes, ireturn,
          prog, cpc,
          nitem, use_original_names, filename, again,
          target, api_key, pexels, qpc, cursor, asked, answers, started,
          qreturn,
          todo, lpc, mutex, shared, applied, delivered>>
resolveVars == <<urls, quality, resolved>>
fileVars == <<file, callback, fpc, headers, range_start, response, total_size,
              mode, downloaded, reported, fresult, runs, before, interrupted>>
\* the state of the operations added after search and the batch schedulers
progressVars == <<pitems, plimit, ppc, phase, percentage, batch_progress,
                  last, lowered>>
itemVars == <<ipc, now, last_update, notified, output, sent, http, parts,
              downloaded_bytes,
              ireturn>>
calcVars == <<prog, cpc>>
nameVars == <<nitem, use_original_names, filename, again>>
facadeVars == <<target, api_key, pexels, qpc, cursor, asked, answers,
                started, qreturn>>
lockVars == <<todo, lpc, mutex, shared, applied, delivered>>
laterVars == <<itemVars, calcVars, nameVars, facadeVars, lockVars>>
extVars == <<resolveVars, fileVars, progressVars, laterVars>>

\* ------------------------------------------------------------ small helpers
SeqsUpTo(S, n) == UNION {[1..k -> S] : k \in 0..n}

RECURSIVE Concat(_)
Concat(ss) == IF ss = <<>> THEN <<>> ELSE Head(ss) \o Concat(Tail(ss))

\* =========================================================================
\* MediaDownloader::search
\* =========================================================================

\* SearchParams: query, limit, page, media_type
ParamSpace == [query : {"cat"}, limit : {20}, page : {1, 2},
               media_type : {"Image", "Video"}]

\* The pages a provider (an implementation of the MediaProvider trait) may
\* answer with.  Items are identified by registration index and position.
PageShapes(p, name, prm) ==
  { [provider |-> name, total |-> 100, total_hits |-> 20, page |-> prm.page,
     per_page |-> prm.limit, total_pages |-> 5, items |-> <<10 * p + 1, 10 * p + 2>>],
    [provider |-> name, total |-> 50, total_hits |-> 10, page |-> 1,
     per_page |-> 3, total_pages |-> 3, items |-> <<10 * p + 1>>],
    [provider |-> name, total |-> 7, total_hits |-> 0, page |-> prm.page,
     per_page |-> prm.limit, total_pages |-> 1, items |-> <<>>] }

NoPage == [provider |-> "", total |-> 0, total_hits |-> 0, page |-> 0,
           per_page |-> 0, total_pages |-> 0, items |-> <<>>]

\* Result<SearchResult> of one provider call
ProviderOk(pg) == [ok |-> TRUE, page |-> pg]
ProviderErr == [ok |-> FALSE, page |-> NoPage]

NoAggregate == [provider |-> "", total |-> 0, total_hits |-> 0, page |-> 0,
                per_page |-> 0, total_pages |-> 0, items |-> <<>>,
                provider_results |-> <<>>]

SearchOk(agg) == [ok |-> TRUE, err |-> "", value |-> agg]
SearchErr(e) == [ok |-> FALSE, err |-> e, value |-> NoAggregate]

\* the method the per-provider future calls for a media type
ProviderMethod(media_type) ==
  IF media_type = "Image" THEN "search_images" ELSE "search_videos"

\* the call one per-provider future makes
ProviderCall(prm) ==
  [method |-> ProviderMethod(prm.media_type), query |-> prm.query,
   limit |-> prm.limit, page |-> prm.page]

\* the accumulators before the loop over the joined results
MergeInit == [provider_results |-> <<>>, all_items |-> <<>>, total_sum |-> 0,
              total_hits_sum |-> 0, total_pages_sum |-> 0, has_success |-> FALSE]

MergeStepCountsFailed(acc, r) ==
  [provider_results |-> IF r.ok THEN Append(acc.provider_results, r.page)
                        ELSE acc.provider_results,
   all_items |-> IF r.ok THEN acc.all_items \o r.page.items ELSE acc.all_items,
   total_sum |-> acc.total_sum + r.page.total + (IF r.ok THEN 0 ELSE 1),
   total_hits_sum |-> acc.total_hits_sum + r.page.total_hits,
   total_pages_sum |-> acc.total_pages_sum + r.page.total_pages
                          + (IF r.ok THEN 0 ELSE 1),
   has_success |-> acc.has_success \/ r.ok]

MergeStepNoSuccessFlag(acc, r) ==
  IF r.ok
  THEN [provider_results |-> Append(acc.provider_results, r.page),
        all_items |-> acc.all_items \o r.page.items,
        total_sum |-> acc.total_sum + r.page.total,
        total_hits_sum |-> acc.total_hits_sum + r.page.total_hits,
        total_pages_sum |-> acc.total_pages_sum + r.page.total_pages,
        has_success |-> r.page.items # <<>>]
  ELSE acc

\* one iteration of `for result in results`.  The counters are u32; the page
\* fields of PageShapes keep every sum far below 2^32, where u32 addition is
\* integer addition.
MergeStep(acc, r) ==
  IF r.ok
  THEN [provider_results |-> Append(acc.provider_results, r.page),
        all_items |-> acc.all_items \o r.page.items,
        total_sum |-> acc.total_sum + r.page.total,
        total_hits_sum |-> acc.total_hits_sum + r.page.total_hits,
        total_pages_sum |-> acc.total_pages_sum + r.page.total_pages,
        has_success |-> TRUE]
  ELSE acc

RECURSIVE MergeLoop(_, _)
MergeLoop(acc, results) ==
  IF results = <<>> THEN acc
  ELSE MergeLoop(MergeStep(acc, Head(results)), Tail(results))

\* provider_results.first().map(|r| r.provider.clone()).unwrap_or("all")
AggregateLabel(prs) ==
  IF prs = <<>> THEN "all" ELSE prs[1].provider

\* the AggregatedSearchResult built after the loop
AggregateOf(acc, prm) ==
  [provider |-> AggregateLabel(acc.provider_results),
   total |-> acc.total_sum, total_hits |-> acc.total_hits_sum,
   page |-> prm.page, per_page |-> prm.limit,
   total_pages |-> acc.total_pages_sum,
   items |-> acc.all_items, provider_results |-> acc.provider_results]

\* the value search returns for the joined results
SearchOutcome(results, prm) ==
  LET acc == MergeLoop(MergeInit, results)
  IN IF ~acc.has_success THEN SearchErr("AllProvidersFailed")
     ELSE SearchOk(AggregateOf(acc, prm))

JoinedResultsByCompletion ==
  [k \in 1..Len(finishOrder) |-> outcomes[finishOrder[k]][1]]

\* the Vec join_all yields: the futures' outputs in the order of the futures
JoinedResults == Concat([p \in 1..Len(providers) |-> outcomes[p]])

SearchJoinFirst == \E p \in 1..Len(providers) : outcomes[p] # <<>>

\* join_all(futures).await completes when every future has completed
SearchJoinAll == \A p \in 1..Len(providers) : outcomes[p] # <<>>

SearchIdle ==
  /\ providers = <<>>
  /\ params = [query |-> "", limit |-> 0, page |-> 0, media_type |-> "Image"]
  /\ spc = "idle"
  /\ calls = <<>>
  /\ outcomes = <<>>
  /\ finishOrder = <<>>
  /\ sresult = <<>>

SearchInit ==
  /\ providers \in SeqsUpTo(ProviderNames, MaxProviders)
  /\ params \in ParamSpace
  /\ spc = "start"
  /\ calls = [p \in 1..Len(providers) |-> <<>>]
  /\ outcomes = [p \in 1..Len(providers) |-> <<>>]
  /\ finishOrder = <<>>
  /\ sresult = <<>>

\* if self.providers.is_empty() { return Err(NoProviders) }
SearchNoProviders ==
  /\ op = "search" /\ spc = "start"
  /\ providers = <<>>
  /\ sresult' = <<SearchErr("NoProviders")>>
  /\ spc' = "done"
  /\ UNCHANGED <<op, providers, params, calls, outcomes, finishOrder>>
  /\ UNCHANGED <<batchVars, extVars>>

\* the futures are built and join_all starts awaiting them
SearchFanOut ==
  /\ op = "search" /\ spc = "start"
  /\ providers # <<>>
  /\ spc' = "joining"
  /\ UNCHANGED <<op, providers, params, calls, outcomes, finishOrder, sresult>>
  /\ UNCHANGED <<batchVars, extVars>>

\* first poll of the p-th future: it calls its provider (join_all polls in order)
SearchCall(p) ==
  /\ op = "search" /\ spc = "joining"
  /\ calls[p] = <<>>
  /\ \A q \in 1..(p - 1) : calls[q] # <<>>
  /\ calls' = [calls EXCEPT ![p] = Append(@, ProviderCall(params))]
  /\ UNCHANGED <<op, providers, params, spc, outcomes, finishOrder, sresult>>
  /\ UNCHANGED <<batchVars, extVars>>

\* the provider's answer arrives: a page, or an error
SearchFinish(p) ==
  /\ op = "search" /\ spc = "joining"
  /\ calls[p] # <<>> /\ outcomes[p] = <<>>
  /\ \E r \in {ProviderOk(pg) : pg \in PageShapes(p, providers[p], params)}
                \cup {ProviderErr} :
        outcomes' = [outcomes EXCEPT ![p] = <<r>>]
  /\ finishOrder' = Append(finishOrder, p)
  /\ UNCHANGED <<op, providers, params, spc, calls, sresult>>
  /\ UNCHANGED <<batchVars, extVars>>

\* join_all returns; the results are merged and search returns
SearchReturn ==
  /\ op = "search" /\ spc = "joining"
  /\ SearchJoinAll
  /\ sresult' = <<SearchOutcome(JoinedResults, params)>>
  /\ spc' = "done"
  /\ UNCHANGED <<op, providers, params, calls, outcomes, finishOrder>>
  /\ UNCHANGED <<batchVars, extVars>>

SearchNext ==
  \/ SearchNoProviders
  \/ SearchFanOut
  \/ \E p \in 1..Len(providers) : SearchCall(p)
  \/ \E p \in 1..Len(providers) : SearchFinish(p)
  \/ SearchReturn

\* =========================================================================
\* MediaDownloader::download_items / download_item and
\* DownloadManager::batch_download_photos / batch_download_videos
\* =========================================================================

\* The items a batch is drawn from: an image, and a video without video files
\* (its URL resolution fails).
ItemPool ==
  { [id |-> 1, media_type |-> "Image", video_files |-> "None"],
    [id |-> 2, media_type |-> "Video", video_files |-> "None"] }

\* whether get_image_url / get_video_url yields a URL for the item
UrlResolves(item) ==
  IF item.media_type = "Image" THEN TRUE ELSE item.video_files = "Some"

\* Result<String> of one transfer
TransferOk(item) == [ok |-> TRUE, err |-> "", path |-> item.id]
TransferErr(e) == [ok |-> FALSE, err |-> e, path |-> 0]

Indices == 1..Len(items)

\* the futures that hold a permit: between acquire() and the end of the block
HoldsPermit(i) == pc[i] \notin {"pending", "waiting", "done"}

Holders == {i \in Indices : HoldsPermit(i)}

SemaphoreAlwaysFree == TRUE

\* Semaphore::acquire succeeds at once iff a permit is free
SemaphoreFree == permits > 0

HandedUnlessFailed(ws, r) == IF ws # <<>> /\ r.ok THEN Head(ws) ELSE 0

\* dropping _permit at the end of the block, whatever the output r: the permit
\* goes to the first waiter of the queue (0: nobody waits)
Handed(ws, r) == IF ws # <<>> THEN Head(ws) ELSE 0

ReturnedPermitsOnSuccess(n, h, r) == IF h = 0 /\ r.ok THEN n + 1 ELSE n

\* the free permits after the drop: one more unless a waiter got the permit
ReturnedPermits(n, h, r) == IF h = 0 THEN n + 1 ELSE n

\* the snapshots notify_progress delivers to the callback
Notify(i, state) == emitted' = [emitted EXCEPT ![i] = Append(@, state)]

\* the end of the i-th future: its output is r and its permit is dropped
Finish(i, r) ==
  /\ result' = [result EXCEPT ![i] = <<r>>]
  /\ overtaken' = (overtaken \/ \E j \in 1..(i - 1) : pc[j] # "done")
  /\ LET h == Handed(waiters, r)
     IN /\ permits' = ReturnedPermits(permits, h, r)
        /\ waiters' = IF h = 0 THEN waiters ELSE Tail(waiters)
        /\ pc' = [j \in Indices |->
                    IF j = i THEN "done" ELSE IF j = h THEN "acquired" ELSE pc[j]]

BatchIdle ==
  /\ max_concurrent = 0
  /\ items = <<>>
  /\ bpc = "idle"
  /\ permits = 0
  /\ waiters = <<>>
  /\ pc = <<>>
  /\ emitted = <<>>
  /\ chunks = <<>>
  /\ result = <<>>
  /\ transfers = <<>>
  /\ requests = <<>>
  /\ status = <<>>
  /\ overtaken = FALSE
  /\ bresult = <<>>

BatchInit ==
  /\ max_concurrent \in 0..MaxConcurrent
  /\ items \in SeqsUpTo(ItemPool, MaxItems)
  /\ bpc = "start"
  /\ permits = 0
  /\ waiters = <<>>
  /\ pc = [i \in Indices |-> "pending"]
  /\ emitted = [i \in Indices |-> <<>>]
  /\ chunks = [i \in Indices |-> 0]
  /\ result = [i \in Indices |-> <<>>]
  /\ transfers = [i \in Indices |-> 0]
  /\ requests = [i \in Indices |-> 0]
  /\ status = [i \in Indices |-> "none"]
  /\ overtaken = FALSE
  /\ bresult = <<>>

IsBatch == op \in {"download_items", "batch_download"}

\* what a step of one future leaves alone
callVars == <<op, max_concurrent, items, bpc, bresult>>
semVars == <<permits, waiters, result, overtaken>>

\* Semaphore::new(max_concurrent); the futures (tasks) are created
BatchStart ==
  /\ IsBatch /\ bpc = "start"
  /\ permits' = max_concurrent
  /\ bpc' = "joining"
  /\ UNCHANGED <<op, max_concurrent, items, waiters, pc, emitted, chunks,
                 result, transfers, requests, status, overtaken, bresult>>
  /\ UNCHANGED <<searchVars, extVars>>

\* first poll of the i-th future: semaphore.acquire().  join_all polls its
\* futures in order; the spawned tasks of batch_download run in any order.
Acquire(i) ==
  /\ IsBatch /\ bpc = "joining"
  /\ pc[i] = "pending"
  /\ op = "download_items" => \A j \in 1..(i - 1) : pc[j] # "pending"
  /\ IF SemaphoreFree
     THEN /\ permits' = permits - 1
          /\ pc' = [pc EXCEPT ![i] = "acquired"]
          /\ UNCHANGED waiters
     ELSE /\ waiters' = Append(waiters, i)
          /\ pc' = [pc EXCEPT ![i] = "waiting"]
          /\ UNCHANGED permits
  /\ UNCHANGED <<emitted, chunks, result, transfers, requests, status, overtaken>>
  /\ UNCHANGED callVars
  /\ UNCHANGED <<searchVars, extVars>>

\* download_item is entered: DownloadProgress::new, state = Starting, notify
Begin(i) ==
  /\ op = "download_items" /\ pc[i] = "acquired"
  /\ transfers' = [transfers EXCEPT ![i] = @ + 1]
  /\ Notify(i, "Starting")
  /\ pc' = [pc EXCEPT ![i] = "resolve"]
  /\ UNCHANGED <<chunks, requests, status>>
  /\ UNCHANGED semVars
  /\ UNCHANGED callVars
  /\ UNCHANGED <<searchVars, extVars>>

\* get_image_url / get_video_url (?), generate_filename, create_dir_all awaited
ResolveUrl(i) ==
  /\ op = "download_items" /\ pc[i] = "resolve"
  /\ IF UrlResolves(items[i])
     THEN /\ pc' = [pc EXCEPT ![i] = "mkdir"]
          /\ UNCHANGED semVars
     ELSE Finish(i, TransferErr("InvalidQuality"))
  /\ UNCHANGED <<emitted, chunks, transfers, requests, status>>
  /\ UNCHANGED callVars
  /\ UNCHANGED <<searchVars, extVars>>

\* the requests of a transfer once send() was called
SentWithRetry(n) == n + 2
Sent(n) == n + 1

CreateDirSilent(i) ==
  /\ op = "download_items" /\ pc[i] = "mkdir"
  /\ \/ /\ pc' = [pc EXCEPT ![i] = "request"]
        /\ requests' = [requests EXCEPT ![i] = Sent(@)]
        /\ UNCHANGED semVars
     \/ /\ Finish(i, TransferErr("IoError"))
        /\ UNCHANGED requests
  /\ UNCHANGED <<emitted, chunks, transfers, status>>
  /\ UNCHANGED callVars
  /\ UNCHANGED <<searchVars, extVars>>

\* create_dir_all returns (?); state = Downloading, notify; the request is sent
CreateDir(i) ==
  /\ op = "download_items" /\ pc[i] = "mkdir"
  /\ \/ /\ Notify(i, "Downloading")
        /\ requests' = [requests EXCEPT ![i] = Sent(@)]
        /\ pc' = [pc EXCEPT ![i] = "request"]
        /\ UNCHANGED semVars
     \/ /\ Finish(i, TransferErr("IoError"))
        /\ UNCHANGED <<emitted, requests>>
  /\ UNCHANGED <<chunks, transfers, status>>
  /\ UNCHANGED callVars
  /\ UNCHANGED <<searchVars, extVars>>

\* send().await returns: a transport error (?), a non-2xx status (Failed is
\* notified), or a 2xx status (content_length is read, File::create awaited)
Respond(i) ==
  /\ op = "download_items" /\ pc[i] = "request"
  /\ \/ /\ status' = [status EXCEPT ![i] = "error"]
        /\ Finish(i, TransferErr("HttpError"))
        /\ UNCHANGED emitted
     \/ /\ status' = [status EXCEPT ![i] = "fail"]
        /\ Notify(i, "Failed")
        /\ Finish(i, TransferErr("DownloadError"))
     \/ /\ status' = [status EXCEPT ![i] = "ok"]
        /\ pc' = [pc EXCEPT ![i] = "create"]
        /\ UNCHANGED emitted
        /\ UNCHANGED semVars
  /\ UNCHANGED <<chunks, transfers, requests>>
  /\ UNCHANGED callVars
  /\ UNCHANGED <<searchVars, extVars>>

\* File::create returns (?); the stream is opened
CreateFile(i) ==
  /\ op = "download_items" /\ pc[i] = "create"
  /\ \/ /\ pc' = [pc EXCEPT ![i] = "stream"]
        /\ UNCHANGED semVars
     \/ Finish(i, TransferErr("IoError"))
  /\ UNCHANGED <<emitted, chunks, transfers, requests, status>>
  /\ UNCHANGED callVars
  /\ UNCHANGED <<searchVars, extVars>>

\* stream.next().await yields a chunk that is written (?) and counted, with a
\* snapshot when the throttle window has elapsed; or it yields an error
StreamChunk(i) ==
  /\ op = "download_items" /\ pc[i] = "stream"
  /\ \/ /\ chunks[i] < MaxChunks
        /\ chunks' = [chunks EXCEPT ![i] = @ + 1]
        /\ \E elapsed \in BOOLEAN :
             IF elapsed THEN Notify(i, "Downloading") ELSE UNCHANGED emitted
        /\ UNCHANGED pc
        /\ UNCHANGED semVars
     \/ /\ \E e \in {"HttpError", "IoError"} : Finish(i, TransferErr(e))
        /\ UNCHANGED <<emitted, chunks>>
  /\ UNCHANGED <<transfers, requests, status>>
  /\ UNCHANGED callVars
  /\ UNCHANGED <<searchVars, extVars>>

\* the stream is exhausted: state = Writing, notify; flush awaited
StreamEnd(i) ==
  /\ op = "download_items" /\ pc[i] = "stream"
  /\ Notify(i, "Writing")
  /\ pc' = [pc EXCEPT ![i] = "flush"]
  /\ UNCHANGED <<chunks, transfers, requests, status>>
  /\ UNCHANGED semVars
  /\ UNCHANGED callVars
  /\ UNCHANGED <<searchVars, extVars>>

FlushNotifiesFailure(i) ==
  /\ op = "download_items" /\ pc[i] = "flush"
  /\ \/ /\ Notify(i, "Completed")
        /\ Finish(i, TransferOk(items[i]))
     \/ /\ Notify(i, "Failed")
        /\ Finish(i, TransferErr("IoError"))
  /\ UNCHANGED <<chunks, transfers, requests, status>>
  /\ UNCHANGED callVars
  /\ UNCHANGED <<searchVars, extVars>>

\* flush returns (?); state = Completed, notify; Ok(output_path)
Flush(i) ==
  /\ op = "download_items" /\ pc[i] = "flush"
  /\ \/ /\ Notify(i, "Completed")
        /\ Finish(i, TransferOk(items[i]))
     \/ /\ Finish(i, TransferErr("IoError"))
        /\ UNCHANGED emitted
  /\ UNCHANGED <<chunks, transfers, requests, status>>
  /\ UNCHANGED callVars
  /\ UNCHANGED <<searchVars, extVars>>

\* batch_download: the task picks the URL, ensures the directory (?), probes
\* the destination and sends the request
TaskRequest(i) ==
  /\ op = "batch_download" /\ pc[i] = "acquired"
  /\ transfers' = [transfers EXCEPT ![i] = @ + 1]
  /\ \/ /\ pc' = [pc EXCEPT ![i] = "request"]
        /\ requests' = [requests EXCEPT ![i] = Sent(@)]
        /\ UNCHANGED semVars
     \/ /\ Finish(i, TransferErr("IoError"))
        /\ UNCHANGED requests
  /\ UNCHANGED <<emitted, chunks, status>>
  /\ UNCHANGED callVars
  /\ UNCHANGED <<searchVars, extVars>>

\* batch_download: send().await returns: a transport error (?), a non-2xx
\* status, or a 2xx status and the destination is opened (?)
TaskRespond(i) ==
  /\ op = "batch_download" /\ pc[i] = "request"
  /\ \/ /\ status' = [status EXCEPT ![i] = "error"]
        /\ Finish(i, TransferErr("HttpError"))
     \/ /\ status' = [status EXCEPT ![i] = "fail"]
        /\ Finish(i, TransferErr("DownloadError"))
     \/ /\ status' = [status EXCEPT ![i] = "ok"]
        /\ \/ /\ pc' = [pc EXCEPT ![i] = "stream"]
              /\ UNCHANGED semVars
           \/ Finish(i, TransferErr("IoError"))
  /\ UNCHANGED <<emitted, chunks, transfers, requests>>
  /\ UNCHANGED callVars
  /\ UNCHANGED <<searchVars, extVars>>

\* batch_download: one round of the chunk loop (read ?, write ?), or its end
\* with Ok(path)
TaskStream(i) ==
  /\ op = "batch_download" /\ pc[i] = "stream"
  /\ \/ /\ chunks[i] < MaxChunks
        /\ chunks' = [chunks EXCEPT ![i] = @ + 1]
        /\ UNCHANGED pc
        /\ UNCHANGED semVars
     \/ /\ \E e \in {"HttpError", "IoError"} : Finish(i, TransferErr(e))
        /\ UNCHANGED chunks
     \/ /\ Finish(i, TransferOk(items[i]))
        /\ UNCHANGED chunks
  /\ UNCHANGED <<emitted, transfers, requests, status>>
  /\ UNCHANGED callVars
  /\ UNCHANGED <<searchVars, extVars>>

BatchResultsOkOnly ==
  SelectSeq(Concat([i \in Indices |-> result[i]]), LAMBDA r : r.ok)

\* the Vec join_all yields: the futures' outputs in the order of the futures
BatchResults == Concat([i \in Indices |-> result[i]])

\* batch_download keeps the successful tasks' paths, in task order
SuccessfulDownloads == SelectSeq(BatchResults, LAMBDA r : r.ok)

\* join_all(futures).await completes when every future has completed
BatchJoinAll == \A i \in Indices : pc[i] = "done"

\* join_all returns and the batch call returns its result list
BatchReturn ==
  /\ IsBatch /\ bpc = "joining"
  /\ BatchJoinAll
  /\ bresult' = <<IF op = "download_items" THEN BatchResults
                  ELSE SuccessfulDownloads>>
  /\ bpc' = "done"
  /\ UNCHANGED <<op, max_concurrent, items, permits, waiters, pc, emitted,
                 chunks, result, transfers, requests, status, overtaken>>
  /\ UNCHANGED <<searchVars, extVars>>

\* the steps of the i-th future (task)
Step(i) ==
  /\ i \in Indices
  /\ \/ Acquire(i)
     \/ Begin(i) \/ ResolveUrl(i) \/ CreateDir(i) \/ Respond(i)
     \/ CreateFile(i) \/ StreamChunk(i) \/ StreamEnd(i) \/ Flush(i)
     \/ TaskRequest(i) \/ TaskRespond(i) \/ TaskStream(i)

BatchNext ==
  \/ BatchStart
  \/ \E i \in Indices : Acquire(i)
  \/ \E i \in Indices : Begin(i)
  \/ \E i \in Indices : ResolveUrl(i)
  \/ \E i \in Indices : CreateDir(i)
  \/ \E i \in Indices : Respond(i)
  \/ \E i \in Indices : CreateFile(i)
  \/ \E i \in Indices : StreamChunk(i)
  \/ \E i \in Indices : StreamEnd(i)
  \/ \E i \in Indices : Flush(i)
  \/ \E i \in Indices : TaskRequest(i)
  \/ \E i \in Indices : TaskRespond(i)
  \/ \E i \in Indices : TaskStream(i)
  \/ BatchReturn

\* =========================================================================
\* MediaDownloader::get_image_url / get_video_url
\* =========================================================================

\* Option<T>: <<>> is None, <<x>> is Some(x)
or_else(o, alt) == IF o # <<>> THEN o ELSE alt

ResolveOk(u) == [ok |-> TRUE, url |-> u, err |-> ""]
ResolveErr(e) == [ok |-> FALSE, url |-> "", err |-> e]

ok_or_else(o, e) == IF o # <<>> THEN ResolveOk(o[1]) ELSE ResolveErr(e)

ImageQuality == {"Thumbnail", "Medium", "Large", "Original"}
VideoQuality == {"Tiny", "Small", "Medium", "Large", "Original"}

as_str(q) ==
  CASE q = "Tiny" -> "tiny"
    [] q = "Small" -> "small"
    [] q = "Medium" -> "medium"
    [] q = "Large" -> "large"
    [] q = "Original" -> "original"

min_width(q) ==
  CASE q = "Tiny" -> 640
    [] q = "Small" -> 960
    [] q = "Medium" -> 1280
    [] q = "Large" -> 1920
    [] q = "Original" -> 0

get_image_url_medium_first(u, q) ==
  CASE q = "Thumbnail" -> ResolveOk(u.thumbnail)
    [] q = "Medium" ->
         ok_or_else(or_else(or_else(u.medium, u.large), <<u.thumbnail>>),
                    "InvalidQuality")
    [] q = "Large" ->
         ok_or_else(or_else(or_else(u.medium, u.large), <<u.thumbnail>>),
                    "InvalidQuality")
    [] q = "Original" ->
         ok_or_else(or_else(or_else(or_else(u.original, u.medium), u.large),
                            <<u.thumbnail>>),
                    "InvalidQuality")

\* match self.config.image_quality
get_image_url(u, q) ==
  CASE q = "Thumbnail" -> ResolveOk(u.thumbnail)
    [] q = "Medium" ->
         ok_or_else(or_else(or_else(u.medium, u.large), <<u.thumbnail>>),
                    "InvalidQuality")
    [] q = "Large" ->
         ok_or_else(or_else(or_else(u.large, u.medium), <<u.thumbnail>>),
                    "InvalidQuality")
    [] q = "Original" ->
         ok_or_else(or_else(or_else(or_else(u.original, u.large), u.medium),
                            <<u.thumbnail>>),
                    "InvalidQuality")

\* the smallest and the largest index of a non-empty set of positions
FirstOf(S) == CHOOSE i \in S : \A j \in S : i <= j
LastOf(S) == CHOOSE i \in S : \A j \in S : j <= i

find_none(vf, label) == <<>>

\* video_files.iter().find(|f| f.quality == quality_str)
find(vf, label) ==
  LET hits == {i \in DOMAIN vf : vf[i].quality = label}
  IN  IF hits = {} THEN <<>> ELSE <<vf[FirstOf(hits)]>>

min_by_key_widest(vf, S) ==
  IF S = {} THEN <<>>
  ELSE <<vf[LastOf({i \in S : \A j \in S : vf[j].width <= vf[i].width})]>>

\* iter.min_by_key(|f| f.width) over the positions S: the first of the
\* elements of minimal width
min_by_key(vf, S) ==
  IF S = {} THEN <<>>
  ELSE <<vf[FirstOf({i \in S : \A j \in S : vf[i].width <= vf[j].width})]>>

max_by_key_unless_narrow(vf, mw) ==
  IF \A i \in DOMAIN vf : vf[i].width < mw THEN <<>>
  ELSE <<vf[LastOf({i \in DOMAIN vf :
                      \A j \in DOMAIN vf : vf[j].width <= vf[i].width})]>>

\* video_files.iter().max_by_key(|f| f.width): the last of the elements of
\* maximal width; mw is the threshold of the step before, which it ignores
max_by_key(vf, mw) ==
  IF DOMAIN vf = {} THEN <<>>
  ELSE <<vf[LastOf({i \in DOMAIN vf :
                      \A j \in DOMAIN vf : vf[j].width <= vf[i].width})]>>

get_video_url(u, q) ==
  IF u.video_files = <<>> THEN ResolveErr("InvalidQuality")
  ELSE
    LET video_files == u.video_files[1]
        exact == find(video_files, as_str(q))
        wide == {i \in DOMAIN video_files : video_files[i].width >= min_width(q)}
        closest == min_by_key(video_files, wide)
        widest == max_by_key(video_files, min_width(q))
    IN  IF exact # <<>> THEN ResolveOk(exact[1].url)
        ELSE IF closest # <<>> THEN ResolveOk(closest[1].url)
        ELSE ok_or_else(IF widest = <<>> THEN <<>> ELSE <<widest[1].url>>,
                        "InvalidQuality")

\* ---- the inputs of the resolvers
ImageUrls ==
  [thumbnail : {"thumbnail_url"},
   medium : {<<>>, <<"medium_url">>},
   large : {<<>>, <<"large_url">>},
   original : {<<>>, <<"original_url">>},
   video_files : {<<>>}]

VariantLabels == {"medium", "large", "hd"}
VariantWidths == {640, 1280, 1920}
VariantUrls == <<"v1", "v2", "v3", "v4", "v5">>

VariantLists ==
  {[i \in DOMAIN s |->
      [quality |-> s[i].quality, width |-> s[i].width, url |-> VariantUrls[i]]] :
     s \in SeqsUpTo([quality : VariantLabels, width : VariantWidths],
                    MaxVariants)}

VideoUrls ==
  [thumbnail : {"thumbnail_url"},
   medium : {<<>>},
   large : {<<>>},
   original : {<<>>},
   video_files : {<<>>} \cup {<<vf>> : vf \in VariantLists}]

ResolveIdle ==
  /\ urls = [thumbnail |-> ""]
  /\ quality = ""
  /\ resolved = <<>>

ResolveInit ==
  /\ \/ op = "get_image_url" /\ urls \in ImageUrls /\ quality \in ImageQuality
     \/ op = "get_video_url" /\ urls \in VideoUrls /\ quality \in VideoQuality
  /\ resolved = <<>>

\* download_item: MediaType::Image => self.get_image_url(item)?
ResolveImage ==
  /\ op = "get_image_url" /\ resolved = <<>>
  /\ resolved' = <<get_image_url(urls, quality)>>
  /\ UNCHANGED <<op, urls, quality, searchVars, batchVars, laterVars, fileVars,
                 progressVars>>

\* download_item: MediaType::Video => self.get_video_url(item)?
ResolveVideo ==
  /\ op = "get_video_url" /\ resolved = <<>>
  /\ resolved' = <<get_video_url(urls, quality)>>
  /\ UNCHANGED <<op, urls, quality, searchVars, batchVars, laterVars, fileVars,
                 progressVars>>

ResolveNext == ResolveImage \/ ResolveVideo

\* =========================================================================
\* DownloadManager::download_file and the task body of
\* batch_download_photos / batch_download_videos: the resumable transfer
\* =========================================================================

\* the complete file the URL serves; its bytes are told apart by position
source == [i \in 1..MaxBytes |-> i]

\* format!("bytes={range_start}-"): the unit, the first byte, no last byte
RangeFrom(n) == [unit |-> "bytes", first |-> n, last |-> <<>>]

\* response.status().is_success()
is_success(st) == st \in 200..299

\* Option::unwrap_or
unwrap_or(o, d) == IF o # <<>> THEN o[1] ELSE d

\* what the server may answer to GET url with the headers h: the complete
\* file, the requested range (or 416 when it starts past the end), the
\* complete file in spite of the range, or a failure; the length is declared
\* or not (chunked encoding)
Responses(h) ==
  LET Declared(b) == {<<>>, <<Len(b)>>}
      Full == {[status |-> 200, content_length |-> c, body |-> source] :
                 c \in Declared(source)}
      Rest(n) == SubSeq(source, n + 1, Len(source))
      Partial(n) ==
        IF n < Len(source)
        THEN {[status |-> 206, content_length |-> c, body |-> Rest(n)] :
                c \in Declared(Rest(n))}
        ELSE {[status |-> 416, content_length |-> <<0>>, body |-> <<>>]}
      Missing == {[status |-> 404, content_length |-> <<0>>, body |-> <<>>]}
  IN  IF h = <<>> THEN Full \cup Missing
      ELSE Full \cup Partial(h[1].first) \cup Missing

FileOk == [ok |-> TRUE, err |-> ""]
FileErr(e) == [ok |-> FALSE, err |-> e]

TotalSizeOfRemainder(c, start) == unwrap_or(c, 0)

\* response.content_length().unwrap_or(0) + range_start
TotalSize(c, start) == unwrap_or(c, 0) + start

\* if range_start > 0 { OpenOptions::new().append(true) } else { File::create }
OpenMode(start) == IF start > 0 THEN "append" ELSE "create"

\* the content of the destination right after it was opened in mode m
Opened(f, m) == IF m = "append" THEN f ELSE << <<>> >>

\* the locals of one invocation before it ran
FileLocals ==
  /\ headers = <<>>
  /\ range_start = 0
  /\ response = <<>>
  /\ total_size = 0
  /\ mode = "none"
  /\ downloaded = 0
  /\ reported = <<>>
  /\ fresult = <<>>

FileIdle ==
  /\ file = <<>> /\ before = <<>> /\ callback = FALSE
  /\ fpc = "idle" /\ runs = 0 /\ interrupted = FALSE
  /\ FileLocals

\* the destination is missing, or holds the first bytes of the source that an
\* earlier transfer left there
FileInit ==
  /\ file \in {<<>>} \cup {<<SubSeq(source, 1, n)>> : n \in 0..Len(source)}
  /\ before = file
  /\ callback \in BOOLEAN
  /\ fpc = "start" /\ runs = 1 /\ interrupted = FALSE
  /\ FileLocals

fileFixed == <<op, callback, runs, interrupted, before, searchVars, batchVars, laterVars,
               resolveVars, progressVars>>

\* fs::create_dir_all(&output_dir).await? fails; it is attempted only when
\* the directory, and so the file, is missing
FileCreateDirFails ==
  /\ op = "download_file" /\ fpc = "start"
  /\ file = <<>>
  /\ fresult' = <<FileErr("Io")>>
  /\ fpc' = "done"
  /\ UNCHANGED <<file, headers, range_start, response, total_size, mode,
                 downloaded, reported, fileFixed>>

\* the size of the file at the destination becomes the start of the range
FilePrepare ==
  /\ op = "download_file" /\ fpc = "start"
  /\ range_start' = IF file # <<>> THEN Len(file[1]) ELSE 0
  /\ headers' = IF file # <<>> THEN <<RangeFrom(range_start')>> ELSE <<>>
  /\ fpc' = "request"
  /\ UNCHANGED <<file, response, total_size, mode, downloaded, reported,
                 fresult, fileFixed>>

\* client.get(url).headers(headers).send().await? fails
FileSendFails ==
  /\ op = "download_file" /\ fpc = "request"
  /\ fresult' = <<FileErr("Request")>>
  /\ fpc' = "done"
  /\ UNCHANGED <<file, headers, range_start, response, total_size, mode,
                 downloaded, reported, fileFixed>>

\* the response arrives: a status that is not a success ends the call, else
\* the total is computed and the destination is opened
FileRespond ==
  /\ op = "download_file" /\ fpc = "request"
  /\ \E r \in Responses(headers) :
       /\ response' = <<r>>
       /\ IF ~is_success(r.status)
          THEN /\ fresult' = <<FileErr("DownloadError")>>
               /\ fpc' = "done"
               /\ UNCHANGED <<file, total_size, mode, downloaded>>
          ELSE /\ total_size' = TotalSize(r.content_length, range_start)
               /\ \/ /\ fresult' = <<FileErr("Io")>>
                     /\ fpc' = "done"
                     /\ UNCHANGED <<file, mode, downloaded>>
                  \/ /\ mode' = OpenMode(range_start)
                     /\ file' = Opened(file, mode')
                     /\ downloaded' = range_start
                     /\ fpc' = "stream"
                     /\ UNCHANGED fresult
  /\ UNCHANGED <<headers, range_start, reported, fileFixed>>

\* stream.next() yields a chunk: it is written after the bytes the file
\* holds, and the callback, when there is one, is told (downloaded, total)
FileChunk ==
  /\ op = "download_file" /\ fpc = "stream"
  /\ response[1].body # <<>>
  /\ \E k \in 1..Len(response[1].body) :
       LET chunk == SubSeq(response[1].body, 1, k)
       IN  /\ file' = <<file[1] \o chunk>>
           /\ downloaded' = downloaded + Len(chunk)
           /\ response' = <<[response[1] EXCEPT
                               !.body = SubSeq(@, k + 1, Len(@))]>>
  /\ reported' = IF callback THEN Append(reported, <<downloaded', total_size>>)
                 ELSE reported
  /\ UNCHANGED <<headers, range_start, total_size, mode, fpc, fresult,
                 fileFixed>>

\* stream.next() yields an error, or write_all fails: the call ends and the
\* bytes written so far stay in the file
FileChunkFails ==
  /\ op = "download_file" /\ fpc = "stream"
  /\ response[1].body # <<>>
  /\ fresult' = <<FileErr("Stream")>>
  /\ fpc' = "done"
  /\ UNCHANGED <<file, headers, range_start, response, total_size, mode,
                 downloaded, reported, fileFixed>>

\* the stream is exhausted: Ok(path)
FileDone ==
  /\ op = "download_file" /\ fpc = "stream"
  /\ response[1].body = <<>>
  /\ fresult' = <<FileOk>>
  /\ fpc' = "done"
  /\ UNCHANGED <<file, headers, range_start, response, total_size, mode,
                 downloaded, reported, fileFixed>>

\* the caller invokes the transfer again for the same destination
FileReinvoke ==
  /\ op = "download_file" /\ fpc = "done" /\ runs < MaxRuns
  /\ runs' = runs + 1
  /\ before' = file
  /\ interrupted' = (fresult[1].err = "Stream")
  /\ fpc' = "start"
  /\ headers' = <<>> /\ range_start' = 0 /\ response' = <<>>
  /\ total_size' = 0 /\ mode' = "none" /\ downloaded' = 0
  /\ reported' = <<>> /\ fresult' = <<>>
  /\ UNCHANGED <<op, file, callback, searchVars, batchVars, laterVars, resolveVars,
                 progressVars>>

FileNext ==
  \/ FileCreateDirFails
  \/ FilePrepare
  \/ FileSendFails
  \/ FileRespond
  \/ FileChunk
  \/ FileChunkFails
  \/ FileDone
  \/ FileReinvoke

\* =========================================================================
\* MediaDownloader::download_items_with_batch_progress: the batch record
\* that the progress callback of every transfer updates under one Mutex
\* =========================================================================

\* item ids; two items of a batch may carry the same id
ItemIds == {"a", "b"}

\* config.max_concurrent: one transfer at a time, or two
ConcurrencyLimits == {1, 2}

\* the percentages a transfer passes through (calculate_percentage)
Levels == {0, 50, 100}

\* DownloadProgress, cloned to the callback: the fields the record is built on
Snapshot(id, st, p) == [item_id |-> id, state |-> st, percentage |-> p]

\* BatchDownloadProgress::new(total_items); the f64 overall_percentage is kept
\* as the exact fraction num / den
NewBatchProgress(n) ==
  [total_items |-> n, completed_items |-> 0, failed_items |-> 0,
   downloading_items |-> 0, overall_percentage |-> [num |-> 0, den |-> 1],
   item_progress |-> <<>>]

CountState(ip, st) == Cardinality({k \in DOMAIN ip : ip[k].state = st})

RECURSIVE SumPercentage(_)
SumPercentage(ip) ==
  IF ip = <<>> THEN 0 ELSE Head(ip).percentage + SumPercentage(Tail(ip))

calculate_overall_percentage_of_all(b) ==
  IF b.total_items > 0
  THEN [b EXCEPT !.overall_percentage =
          [num |-> b.completed_items * 100 + SumPercentage(b.item_progress),
           den |-> b.total_items]]
  ELSE b

\* completed_items / total_items * 100 + the sum over the records in state
\* Downloading of percentage / total_items
calculate_overall_percentage(b) ==
  IF b.total_items > 0
  THEN [b EXCEPT !.overall_percentage =
          [num |-> b.completed_items * 100
                   + SumPercentage(SelectSeq(b.item_progress,
                                             LAMBDA p : p.state = "Downloading")),
           den |-> b.total_items]]
  ELSE b

StoreByPush(ip, progress) == Append(ip, progress)

\* item_progress[pos] = progress at the first position of that item id, else
\* item_progress.push(progress)
Store(ip, progress) ==
  LET hits == {k \in DOMAIN ip : ip[k].item_id = progress.item_id}
  IN  IF hits # {} THEN [ip EXCEPT ![FirstOf(hits)] = progress]
      ELSE Append(ip, progress)

\* the counter of the state of the snapshot is counted anew, the others stay
UpdateCounters(b, progress) ==
  CASE progress.state = "Downloading" ->
         [b EXCEPT !.downloading_items = CountState(b.item_progress, "Downloading")]
    [] progress.state = "Completed" ->
         [b EXCEPT !.completed_items = CountState(b.item_progress, "Completed")]
    [] progress.state = "Failed" ->
         [b EXCEPT !.failed_items = CountState(b.item_progress, "Failed")]
    [] OTHER -> b

\* the body of the progress callback, run with the Mutex held
BatchUpdate(b, progress) ==
  calculate_overall_percentage(
    UpdateCounters([b EXCEPT !.item_progress = Store(@, progress)], progress))

ProgressIndices == 1..Len(pitems)
Active(i) == phase[i] \in {"Starting", "Downloading", "Streaming", "Writing"}

\* the order of two f64 percentages kept as fractions: a < b
Below(a, b) == a.num * b.den < b.num * a.den

\* notify_progress(&progress) of the i-th transfer: the callback updates the
\* record and hands a clone of it to batch_callback
NotifyBatch(i, st, p) ==
  /\ last' = <<Snapshot(pitems[i], st, p)>>
  /\ batch_progress' = BatchUpdate(batch_progress, Snapshot(pitems[i], st, p))
  /\ lowered' = Below(batch_progress'.overall_percentage,
                      batch_progress.overall_percentage)

progressFixed == <<op, pitems, plimit, searchVars, batchVars, laterVars, resolveVars,
                   fileVars>>

ProgressIdle ==
  /\ pitems = <<>> /\ plimit = 0 /\ ppc = "idle"
  /\ phase = <<>> /\ percentage = <<>>
  /\ batch_progress = NewBatchProgress(0)
  /\ last = <<>> /\ lowered = FALSE

ProgressInit ==
  /\ pitems \in SeqsUpTo(ItemIds, MaxBatch)
  /\ plimit \in ConcurrencyLimits
  /\ ppc = "joining"
  /\ phase = [i \in ProgressIndices |-> "pending"]
  /\ percentage = [i \in ProgressIndices |-> 0]
  /\ batch_progress = NewBatchProgress(Len(pitems))
  /\ last = <<>> /\ lowered = FALSE

\* the i-th future gets a permit, in the order of the batch, and
\* download_item notifies Starting
ProgressStarting(i) ==
  /\ op = "download_items_with_batch_progress" /\ ppc = "joining"
  /\ phase[i] = "pending"
  /\ \A j \in 1..(i - 1) : phase[j] # "pending"
  /\ Cardinality({j \in ProgressIndices : Active(j)}) < plimit
  /\ phase' = [phase EXCEPT ![i] = "Starting"]
  /\ NotifyBatch(i, "Starting", 0)
  /\ UNCHANGED <<percentage, ppc, progressFixed>>

\* the URL resolved and the directory exists: Downloading is notified before
\* the request is sent
ProgressDownloading(i) ==
  /\ op = "download_items_with_batch_progress" /\ phase[i] = "Starting"
  /\ phase' = [phase EXCEPT ![i] = "Downloading"]
  /\ NotifyBatch(i, "Downloading", 0)
  /\ UNCHANGED <<percentage, ppc, progressFixed>>

\* the response is not a success: Failed is notified and the transfer ends
ProgressFailed(i) ==
  /\ op = "download_items_with_batch_progress" /\ phase[i] = "Downloading"
  /\ phase' = [phase EXCEPT ![i] = "ended"]
  /\ NotifyBatch(i, "Failed", 0)
  /\ percentage' = [percentage EXCEPT ![i] = 0]
  /\ UNCHANGED <<ppc, progressFixed>>

\* the response is a success and the destination file is created
ProgressResponded(i) ==
  /\ op = "download_items_with_batch_progress" /\ phase[i] = "Downloading"
  /\ phase' = [phase EXCEPT ![i] = "Streaming"]
  /\ UNCHANGED <<percentage, batch_progress, last, lowered, ppc,
                 progressFixed>>

\* a chunk is written: the percentage grows when the total is known and stays
\* when it is not; the snapshot is notified when 100 ms have passed
ProgressChunk(i) ==
  /\ op = "download_items_with_batch_progress" /\ phase[i] = "Streaming"
  /\ \E p \in Levels :
       /\ p > percentage[i] \/ (p = 0 /\ percentage[i] = 0)
       /\ percentage' = [percentage EXCEPT ![i] = p]
       /\ \E elapsed \in BOOLEAN :
            IF elapsed THEN NotifyBatch(i, "Downloading", p)
            ELSE UNCHANGED <<batch_progress, last, lowered>>
  /\ UNCHANGED <<phase, ppc, progressFixed>>

\* the stream is exhausted, with the whole of a known total received or with
\* no total known: Writing is notified
ProgressWriting(i) ==
  /\ op = "download_items_with_batch_progress" /\ phase[i] = "Streaming"
  /\ percentage[i] \in {0, 100}
  /\ phase' = [phase EXCEPT ![i] = "Writing"]
  /\ NotifyBatch(i, "Writing", percentage[i])
  /\ UNCHANGED <<percentage, ppc, progressFixed>>

\* the file is flushed: Completed is notified and the transfer ends
ProgressCompleted(i) ==
  /\ op = "download_items_with_batch_progress" /\ phase[i] = "Writing"
  /\ phase' = [phase EXCEPT ![i] = "completed"]
  /\ NotifyBatch(i, "Completed", percentage[i])
  /\ percentage' = [percentage EXCEPT ![i] = 0]
  /\ UNCHANGED <<ppc, progressFixed>>

\* an error leaves download_item through ?: the transfer ends and nothing is
\* notified
ProgressError(i) ==
  /\ op = "download_items_with_batch_progress" /\ Active(i)
  /\ phase' = [phase EXCEPT ![i] = "ended"]
  /\ percentage' = [percentage EXCEPT ![i] = 0]
  /\ UNCHANGED <<batch_progress, last, lowered, ppc, progressFixed>>

\* join_all is complete: download_items returns
ProgressReturn ==
  /\ op = "download_items_with_batch_progress" /\ ppc = "joining"
  /\ \A i \in ProgressIndices : phase[i] \in {"ended", "completed"}
  /\ ppc' = "done"
  /\ UNCHANGED <<phase, percentage, batch_progress, last, lowered,
                 progressFixed>>

ProgressNext ==
  \/ \E i \in ProgressIndices : ProgressStarting(i)
  \/ \E i \in ProgressIndices : ProgressDownloading(i)
  \/ \E i \in ProgressIndices : ProgressFailed(i)
  \/ \E i \in ProgressIndices : ProgressResponded(i)
  \/ \E i \in ProgressIndices : ProgressChunk(i)
  \/ \E i \in ProgressIndices : ProgressWriting(i)
  \/ \E i \in ProgressIndices : ProgressCompleted(i)
  \/ \E i \in ProgressIndices : ProgressError(i)
  \/ ProgressReturn

\* =========================================================================
\* MediaDownloader::download_item, one call against the clock
\* =========================================================================

\* Result<PathBuf> of download_item
ItemOk == [ok |-> TRUE, err |-> "", message |-> <<>>]
ItemErr(e, m) == [ok |-> FALSE, err |-> e, message |-> m]

\* the status codes the server answers with
HttpStatuses == {200, 404, 500}

\* format!("HTTP {}", response.status())
FailedMessageBare(st) == <<>>
FailedMessage(st) == <<"HTTP", st>>

\* last_update.elapsed().as_millis() >= 100
ThrottleOpen(elapsed) == TRUE
ThrottleElapsed(elapsed) == elapsed >= ThrottleMs

\* the snapshot notify_progress hands to the callback, stamped with the
\* instant of the call; in_loop marks the call inside the chunk loop
ItemSnapshot(st, m, loop) ==
  [state |-> st, message |-> m, at |-> now, in_loop |-> loop,
   downloaded_bytes |-> downloaded_bytes]

\* the chunks stream.next() yields: one byte, or two
Chunks == {<<"a">>, <<"b", "c">>}

write_all_in_front(content, chunk) == chunk \o content

\* file.write_all(&chunk): the bytes go to the end of the file
write_all(content, chunk) == content \o chunk

\* the destination file: "absent", "old" (the bytes a former call left) or
\* "new" (created or truncated by this call), and the bytes it holds
Outputs ==
  {[kind |-> "absent", content |-> <<>>], [kind |-> "old", content |-> <<"o">>]}

ItemIdle ==
  /\ ipc = "idle" /\ now = 0 /\ last_update = 0 /\ notified = <<>>
  /\ output = [kind |-> "absent", content |-> <<>>]
  /\ sent = 0 /\ http = 0 /\ parts = <<>> /\ downloaded_bytes = 0 /\ ireturn = <<>>

ItemInit ==
  /\ ipc = "start" /\ now = 0 /\ last_update = 0 /\ notified = <<>>
  /\ output \in Outputs
  /\ sent = 0 /\ http = 0 /\ parts = <<>> /\ downloaded_bytes = 0 /\ ireturn = <<>>

itemFixed == <<op, searchVars, batchVars, resolveVars, fileVars,
               progressVars, calcVars, nameVars, facadeVars, lockVars>>

\* the Starting snapshot, then the URL of the configured quality
ItemStart ==
  /\ ipc = "start"
  /\ notified' = Append(notified, ItemSnapshot("Starting", <<>>, FALSE))
  /\ \E found \in BOOLEAN :
       IF found
         THEN ipc' = "mkdir" /\ UNCHANGED ireturn
         ELSE ipc' = "done" /\ ireturn' = <<ItemErr("InvalidQuality", <<>>)>>
  /\ UNCHANGED <<now, last_update, output, sent, http, parts, downloaded_bytes, itemFixed>>

\* create_dir_all returned: the Downloading snapshot and the request
ItemCreateDir ==
  /\ ipc = "mkdir"
  /\ \E made \in BOOLEAN :
       IF made
         THEN /\ notified' =
                   Append(notified, ItemSnapshot("Downloading", <<>>, FALSE))
              /\ sent' = sent + 1
              /\ ipc' = "request"
              /\ UNCHANGED ireturn
         ELSE /\ ipc' = "done" /\ ireturn' = <<ItemErr("Io", <<>>)>>
              /\ UNCHANGED <<notified, sent>>
  /\ UNCHANGED <<now, last_update, output, http, parts, downloaded_bytes, itemFixed>>

\* send().await returned: a transport error, a status that is not a success,
\* or a body to stream
ItemRespond ==
  /\ ipc = "request"
  /\ \/ /\ ipc' = "done" /\ ireturn' = <<ItemErr("Http", <<>>)>>
        /\ UNCHANGED <<notified, http, last_update>>
     \/ \E st \in HttpStatuses :
          /\ http' = st
          /\ IF ~is_success(st)
               THEN /\ notified' = Append(notified,
                         ItemSnapshot("Failed", FailedMessage(st), FALSE))
                    /\ ipc' = "done"
                    /\ ireturn' = <<ItemErr("Download", <<"HTTP", st>>)>>
                    /\ UNCHANGED last_update
               ELSE /\ last_update' = now
                    /\ ipc' = "create"
                    /\ UNCHANGED <<notified, ireturn>>
  /\ UNCHANGED <<now, output, sent, parts, downloaded_bytes, itemFixed>>

\* File::create returned
ItemCreateFile ==
  /\ ipc = "create"
  /\ \E made \in BOOLEAN :
       IF made
         THEN /\ output' = [kind |-> "new", content |-> <<>>]
              /\ ipc' = "stream"
              /\ UNCHANGED ireturn
         ELSE /\ ipc' = "done" /\ ireturn' = <<ItemErr("Io", <<>>)>>
              /\ UNCHANGED output
  /\ UNCHANGED <<now, last_update, notified, sent, http, parts, downloaded_bytes, itemFixed>>

\* one pass of the chunk loop: the chunk is written, and the snapshot goes
\* out when the throttle window has elapsed; the callback may take time
ItemChunk ==
  /\ ipc = "stream" /\ Len(parts) < MaxParts
  /\ \E chunk \in Chunks :
       /\ parts' = Append(parts, chunk)
       /\ output' = [output EXCEPT !.content = write_all(@, chunk)]
       /\ downloaded_bytes' = downloaded_bytes + Len(chunk)
  /\ IF ThrottleElapsed(now - last_update)
       THEN /\ notified' =
                 Append(notified,
                        [ItemSnapshot("Downloading", <<>>, TRUE)
                           EXCEPT !.downloaded_bytes = downloaded_bytes'])
            /\ \E spent \in {0, TickMs} :
                 /\ now + spent <= MaxTicks * TickMs
                 /\ now' = now + spent
                 /\ last_update' = now + spent
       ELSE UNCHANGED <<notified, now, last_update>>
  /\ UNCHANGED <<ipc, sent, http, ireturn, itemFixed>>

\* the stream yields an error, or write_all fails
ItemChunkFails ==
  /\ ipc = "stream"
  /\ \E e \in {"Http", "Io"} :
       ireturn' = <<ItemErr(e, <<>>)>>
  /\ ipc' = "done"
  /\ UNCHANGED <<now, last_update, notified, output, sent, http, parts, downloaded_bytes,
                 itemFixed>>

\* the stream ended: the Writing snapshot, then flush
ItemStreamEnd ==
  /\ ipc = "stream"
  /\ notified' = Append(notified, ItemSnapshot("Writing", <<>>, FALSE))
  /\ ipc' = "flush"
  /\ UNCHANGED <<now, last_update, output, sent, http, parts, downloaded_bytes, ireturn,
                 itemFixed>>

\* flush returned
ItemFlush ==
  /\ ipc = "flush"
  /\ \E flushed \in BOOLEAN :
       IF flushed
         THEN /\ notified' =
                   Append(notified, ItemSnapshot("Completed", <<>>, FALSE))
              /\ ireturn' = <<ItemOk>>
         ELSE /\ ireturn' = <<ItemErr("Io", <<>>)>>
              /\ UNCHANGED notified
  /\ ipc' = "done"
  /\ UNCHANGED <<now, last_update, output, sent, http, parts, downloaded_bytes, itemFixed>>

\* time passes while the call is suspended at an await
ItemTick ==
  /\ ipc \notin {"idle", "done"}
  /\ now + TickMs <= MaxTicks * TickMs
  /\ now' = now + TickMs
  /\ UNCHANGED <<ipc, last_update, notified, output, sent, http, parts, downloaded_bytes,
                 ireturn, itemFixed>>

ItemNext ==
  \/ ItemStart \/ ItemCreateDir \/ ItemRespond \/ ItemCreateFile
  \/ ItemChunk \/ ItemChunkFails \/ ItemStreamEnd \/ ItemFlush \/ ItemTick

\* =========================================================================
\* DownloadProgress::calculate_percentage / calculate_eta over one transfer
\* =========================================================================

\* f64 values are kept as exact fractions
Fraction(n, d) == [num |-> n, den |-> d]
SameValue(a, b) == a.num * b.den = b.num * a.den
Positive(a) == a.num * a.den > 0

\* response.content_length()
ContentLengths == {<<>>} \cup {<<t>> : t \in 0..MaxBytes}

\* the percentage the record holds when the transfer reaches it
Percentages == {Fraction(0, 1), Fraction(50, 1)}

\* DownloadProgress::new(item), with total_bytes as the response declares it
NewProgress(total, pct) ==
  [downloaded_bytes |-> 0, total_bytes |-> total, speed_bps |-> 0,
   percentage |-> pct, elapsed_secs |-> 0, eta_secs |-> <<>>]

calculate_percentage_or_zero(p) ==
  IF p.total_bytes # <<>> /\ p.total_bytes[1] > 0
  THEN [p EXCEPT !.percentage =
          Fraction(p.downloaded_bytes * 100, p.total_bytes[1])]
  ELSE [p EXCEPT !.percentage = Fraction(0, 1)]
calculate_percentage(p) ==
  IF p.total_bytes # <<>> /\ p.total_bytes[1] > 0
  THEN [p EXCEPT !.percentage =
          Fraction(p.downloaded_bytes * 100, p.total_bytes[1])]
  ELSE p

calculate_eta(p) ==
  IF /\ p.total_bytes # <<>>
     /\ p.speed_bps > 0
     /\ p.downloaded_bytes < p.total_bytes[1]
  THEN [p EXCEPT !.eta_secs =
          <<Fraction(p.total_bytes[1] - p.downloaded_bytes, p.speed_bps)>>]
  ELSE p

\* (downloaded as f64 / elapsed) as u64, or 0 when no time has elapsed
Speed(d, e) == IF e > 0 THEN d \div e ELSE 0

CalcIdle ==
  /\ cpc = "idle"
  /\ prog = NewProgress(<<>>, Fraction(0, 1))

CalcInit ==
  /\ cpc = "start"
  /\ \E total \in ContentLengths, pct \in Percentages :
       prog = NewProgress(total, pct)

calcFixed == <<op, searchVars, batchVars, resolveVars, fileVars,
               progressVars, itemVars, nameVars, facadeVars, lockVars>>

\* one pass of the chunk loop: the chunk is counted, then speed, percentage
\* and ETA are recomputed
CalcChunk ==
  /\ cpc \in {"start", "loop"}
  /\ prog.downloaded_bytes < MaxBytes
  /\ \E len \in 1..(MaxBytes - prog.downloaded_bytes),
        e \in prog.elapsed_secs..MaxSecs :
       prog' = calculate_eta(calculate_percentage(
                     [prog EXCEPT
                        !.downloaded_bytes = @ + len,
                        !.elapsed_secs = e,
                        !.speed_bps = Speed(prog.downloaded_bytes + len, e)]))
  /\ cpc' = "loop"
  /\ UNCHANGED calcFixed

\* the final update after the loop
CalcFinal ==
  /\ cpc \in {"start", "loop"}
  /\ \E e \in prog.elapsed_secs..MaxSecs :
       prog' = calculate_percentage([prog EXCEPT !.elapsed_secs = e])
  /\ cpc' = "final"
  /\ UNCHANGED calcFixed

CalcNext == CalcChunk \/ CalcFinal

\* =========================================================================
\* MediaDownloader::generate_filename
\* =========================================================================

\* the characters of a title: letters and digits (ASCII or not), the two
\* characters the filter names, and characters it drops
Chars == {"a", "Z", "7", "e-acute", "_", "-", " ", "/"}

\* char::is_alphanumeric
is_alphanumeric(c) == c \in {"a", "Z", "7", "e-acute"}

\* the provider labels the providers put on their items
ProviderLabels == {"Pixabay", "Pexels"}

\* str::to_lowercase on a provider label
to_lowercase(s) ==
  CASE s = "Pixabay" -> "pixabay"
    [] s = "Pexels" -> "pexels"
    [] s = "Flickr" -> "flickr"
    [] OTHER -> s

MediaItems ==
  [provider : ProviderLabels, title : SeqsUpTo(Chars, MaxTitle),
   id : {"42"}, media_type : {"Image", "Video"}]

Extension(media_type) == IF media_type = "Image" THEN "jpg" ELSE "mp4"

\* title.chars().filter(|c| c.is_alphanumeric() || c == '_' || c == '-')
KeepAll(title) == title
SanitizedTitle(title) ==
  SelectSeq(title, LAMBDA c : is_alphanumeric(c) \/ c = "_" \/ c = "-")

\* a name is the sequence of the pieces format! puts together
generate_filename(item, original) ==
  IF original
  THEN <<to_lowercase(item.provider), "_", item.id, ".",
         Extension(item.media_type)>>
  ELSE LET sanitized_title == SanitizedTitle(item.title)
           sanitized == IF sanitized_title = <<>> THEN <<item.id>>
                                                  ELSE sanitized_title
       IN  <<to_lowercase(item.provider), "_">> \o sanitized
             \o <<"_", item.id, ".", Extension(item.media_type)>>

NameIdle ==
  /\ nitem = [provider |-> "", title |-> <<>>, id |-> "", media_type |-> "Image"]
  /\ use_original_names = FALSE
  /\ filename = <<>> /\ again = <<>>

NameInit ==
  /\ nitem \in MediaItems
  /\ use_original_names \in BOOLEAN
  /\ filename = <<>> /\ again = <<>>

nameFixed == <<op, nitem, use_original_names, searchVars, batchVars,
               resolveVars, fileVars, progressVars, itemVars, calcVars,
               facadeVars, lockVars>>

\* the name of the first download of the item
GenerateFilename ==
  /\ op = "generate_filename"
  /\ filename = <<>>
  /\ filename' = <<generate_filename(nitem, use_original_names)>>
  /\ UNCHANGED <<again, nameFixed>>

\* the name of a later download of the same item with the same configuration
GenerateFilenameAgain ==
  /\ op = "generate_filename"
  /\ filename # <<>> /\ again = <<>>
  /\ again' = <<generate_filename(nitem, use_original_names)>>
  /\ UNCHANGED <<filename, nameFixed>>

NameNext == GenerateFilename \/ GenerateFilenameAgain

\* =========================================================================
\* create_provider, MediaDownloader::add_provider_by_name_and_apikey,
\* search_from_provider and download_by_id
\* =========================================================================

\* Result of the facade calls that fail before any provider answers
QueryErr(e, m) == [ok |-> FALSE, err |-> e, message |-> m]

\* Ok(Arc::new(provider)): the provider is known by what name() returns
ProviderMade(name) == [ok |-> TRUE, provider |-> name]

\* the provider_name arguments and the api_key arguments of the calls
Targets == {"Pixabay", "Pexels", "pixabay", "Flickr"}
ApiKeys == {"", "key"}

create_provider_any_key(provider_name, key) ==
  CASE to_lowercase(provider_name) = "pexels" ->
         IF pexels THEN ProviderMade("Pexels")
                   ELSE QueryErr("ProviderNotEnabled", <<"pexels">>)
    [] to_lowercase(provider_name) = "pixabay" -> ProviderMade("Pixabay")
    [] OTHER -> QueryErr("UnknownProvider", <<provider_name>>)
create_provider(provider_name, key) ==
  IF key = ""
  THEN QueryErr("ApiKeyIsEmpty", <<>>)
  ELSE CASE to_lowercase(provider_name) = "pexels" ->
              IF pexels THEN ProviderMade("Pexels")
                        ELSE QueryErr("ProviderNotEnabled", <<"pexels">>)
         [] to_lowercase(provider_name) = "pixabay" -> ProviderMade("Pixabay")
         [] OTHER -> QueryErr("UnknownProvider", <<provider_name>>)

\* |p| p.name() == provider_name
NameMatchesIgnoringCase(name, provider_name) ==
  to_lowercase(name) = to_lowercase(provider_name)
NameMatches(name, provider_name) == name = provider_name

\* the provider the loop of download_by_id turns to after a failed lookup
AfterMissGiveUp(c) == Len(providers) + 1
AfterMiss(c) == c + 1

NoParams == [query |-> "", limit |-> 0, page |-> 0, media_type |-> "Image"]

FacadeIdle ==
  /\ target = "" /\ api_key = "" /\ pexels = TRUE
  /\ qpc = "idle" /\ cursor = 1 /\ asked = <<>> /\ answers = <<>>
  /\ started = 0 /\ qreturn = <<>>

\* a downloader with its registered providers, and the arguments of one call
FacadeInit ==
  /\ providers \in SeqsUpTo(ProviderNames, MaxProviders)
  /\ \/ /\ op = "add_provider_by_name_and_apikey"
        /\ target \in Targets /\ api_key \in ApiKeys /\ pexels \in BOOLEAN
        /\ params = NoParams
     \/ /\ op = "search_from_provider"
        /\ target \in Targets /\ api_key = "" /\ pexels = TRUE
        /\ params \in ParamSpace
     \/ /\ op = "download_by_id"
        /\ target = "" /\ api_key = "" /\ pexels = TRUE
        /\ params = NoParams
  /\ spc = "idle" /\ calls = <<>> /\ outcomes = <<>>
  /\ finishOrder = <<>> /\ sresult = <<>>
  /\ qpc = "start" /\ cursor = 1 /\ asked = <<>> /\ answers = <<>>
  /\ started = 0 /\ qreturn = <<>>

facadeFixed == <<op, params, spc, calls, outcomes, finishOrder, sresult,
                 target, api_key, pexels, batchVars, resolveVars, fileVars,
                 progressVars, calcVars, nameVars, lockVars>>
itemAtRest == <<now, last_update, notified, sent, http, parts, downloaded_bytes, ireturn>>

\* the provider is constructed and pushed, or the error is logged
AddProviderByNameAndApikey ==
  /\ op = "add_provider_by_name_and_apikey" /\ qpc = "start"
  /\ LET made == create_provider(target, api_key)
     IN  /\ providers' = IF made.ok THEN Append(providers, made.provider)
                                    ELSE providers
         /\ qreturn' = <<made>>
  /\ qpc' = "done"
  /\ UNCHANGED <<cursor, asked, answers, started, ipc, output, itemAtRest,
                 facadeFixed>>

\* find the named provider; call it, or return the error
SearchFromProvider ==
  /\ op = "search_from_provider" /\ qpc = "start"
  /\ LET named == {p \in 1..Len(providers) : NameMatches(providers[p], target)}
     IN  IF named = {}
           THEN /\ qreturn' = <<QueryErr("Download", <<"no provider", target>>)>>
                /\ qpc' = "done"
                /\ UNCHANGED <<cursor, asked>>
           ELSE /\ cursor' = FirstOf(named)
                /\ asked' = Append(asked, [provider |-> FirstOf(named),
                                           call |-> ProviderCall(params)])
                /\ qpc' = "asked"
                /\ UNCHANGED qreturn
  /\ UNCHANGED <<providers, answers, started, ipc, output, itemAtRest,
                 facadeFixed>>

\* the provider's answer is the result of the call
SearchFromProviderReturn ==
  /\ op = "search_from_provider" /\ qpc = "asked"
  /\ \E r \in {ProviderOk(pg) :
                 pg \in PageShapes(cursor, providers[cursor], params)}
                \cup {ProviderErr} :
       /\ answers' = Append(answers, r)
       /\ qreturn' = <<r>>
  /\ qpc' = "done"
  /\ UNCHANGED <<providers, cursor, asked, started, ipc, output, itemAtRest,
                 facadeFixed>>

\* the loop turns to the next provider and calls get_media
DownloadByIdAsk ==
  /\ op = "download_by_id" /\ qpc = "start"
  /\ cursor <= Len(providers)
  /\ asked' = Append(asked, [provider |-> cursor, call |-> "get_media"])
  /\ qpc' = "asked"
  /\ UNCHANGED <<providers, cursor, answers, started, qreturn, ipc, output,
                 itemAtRest, facadeFixed>>

\* get_media returned: Ok(item) enters download_item, Err(_) continues
DownloadByIdAnswer ==
  /\ op = "download_by_id" /\ qpc = "asked"
  /\ \E found \in BOOLEAN :
       /\ answers' = Append(answers, found)
       /\ IF found
            THEN /\ started' = started + 1
                 /\ ipc' = "start" /\ output' \in Outputs
                 /\ qpc' = "transfer"
                 /\ UNCHANGED cursor
            ELSE /\ cursor' = AfterMiss(cursor)
                 /\ qpc' = "start"
                 /\ UNCHANGED <<started, ipc, output>>
  /\ UNCHANGED <<providers, asked, qreturn, itemAtRest, facadeFixed>>

\* return self.download_item(&item).await
DownloadByIdReturn ==
  /\ op = "download_by_id" /\ qpc = "transfer"
  /\ ipc = "done"
  /\ qreturn' = ireturn
  /\ qpc' = "done"
  /\ UNCHANGED <<providers, cursor, asked, answers, started, ipc, output,
                 itemAtRest, facadeFixed>>

\* every provider failed the lookup
DownloadByIdNotFound ==
  /\ op = "download_by_id" /\ qpc = "start"
  /\ cursor > Len(providers)
  /\ qreturn' = <<QueryErr("Download", <<"no media">>)>>
  /\ qpc' = "done"
  /\ UNCHANGED <<providers, cursor, asked, answers, started, ipc, output,
                 itemAtRest, facadeFixed>>

FacadeNext ==
  \/ AddProviderByNameAndApikey
  \/ SearchFromProvider \/ SearchFromProviderReturn
  \/ DownloadByIdAsk \/ DownloadByIdAnswer \/ DownloadByIdReturn
  \/ DownloadByIdNotFound

\* =========================================================================
\* Specifications
\* =========================================================================

\* =========================================================================
\* The progress callback of download_items_with_batch_progress, step by
\* step: lock, store, recount, recompute, deliver and unlock
\* =========================================================================

\* the transfers whose snapshots reach the callback
Callers == 1..MaxConcurrent

\* the item snapshots one transfer notifies, in order
SnapshotRuns(id) ==
  { <<Snapshot(id, "Starting", 0), Snapshot(id, "Downloading", 50)>>,
    <<Snapshot(id, "Starting", 0), Snapshot(id, "Failed", 0)>>,
    <<Snapshot(id, "Starting", 0), Snapshot(id, "Downloading", 50),
      Snapshot(id, "Completed", 100)>> }

MutexIgnored(m) == TRUE

\* Mutex::lock returns once no other guard is alive
MutexFree(m) == m = 0

LockIdle ==
  /\ todo = <<>> /\ lpc = <<>> /\ mutex = 0
  /\ shared = NewBatchProgress(0) /\ applied = <<>> /\ delivered = <<>>

\* Arc::new(Mutex::new(BatchDownloadProgress::new(items.len())))
LockInit ==
  /\ op = "progress_callback"
  /\ todo \in {f \in [Callers -> UNION {SnapshotRuns(id) : id \in ItemIds}] :
                 \A i \in Callers : f[i] \in SnapshotRuns(f[i][1].item_id)}
  /\ lpc = [i \in Callers |-> "outside"]
  /\ mutex = 0
  /\ shared = NewBatchProgress(MaxConcurrent)
  /\ applied = <<>> /\ delivered = <<>>

lockFixed == <<op, searchVars, batchVars, resolveVars, fileVars, progressVars,
               itemVars, calcVars, nameVars, facadeVars>>

\* notify_progress calls the callback: batch_progress_clone.lock().unwrap()
CallbackLock(i) ==
  /\ op = "progress_callback" /\ lpc[i] = "outside" /\ todo[i] # <<>>
  /\ MutexFree(mutex)
  /\ mutex' = i
  /\ applied' = Append(applied, Head(todo[i]))
  /\ lpc' = [lpc EXCEPT ![i] = "locked"]
  /\ UNCHANGED <<todo, shared, delivered, lockFixed>>

\* the record of the item is replaced, or pushed
CallbackStore(i) ==
  /\ op = "progress_callback" /\ lpc[i] = "locked"
  /\ shared' = [shared EXCEPT !.item_progress = Store(@, Head(todo[i]))]
  /\ lpc' = [lpc EXCEPT ![i] = "stored"]
  /\ UNCHANGED <<todo, mutex, applied, delivered, lockFixed>>

\* match progress.state: the counter of that state is counted anew
CallbackCount(i) ==
  /\ op = "progress_callback" /\ lpc[i] = "stored"
  /\ shared' = UpdateCounters(shared, Head(todo[i]))
  /\ lpc' = [lpc EXCEPT ![i] = "counted"]
  /\ UNCHANGED <<todo, mutex, applied, delivered, lockFixed>>

\* batch.calculate_overall_percentage()
CallbackOverall(i) ==
  /\ op = "progress_callback" /\ lpc[i] = "counted"
  /\ shared' = calculate_overall_percentage(shared)
  /\ lpc' = [lpc EXCEPT ![i] = "computed"]
  /\ UNCHANGED <<todo, mutex, applied, delivered, lockFixed>>

\* batch_callback_clone(batch.clone()); the guard drops when the closure ends
CallbackDeliver(i) ==
  /\ op = "progress_callback" /\ lpc[i] = "computed"
  /\ delivered' = Append(delivered, shared)
  /\ mutex' = 0
  /\ todo' = [todo EXCEPT ![i] = Tail(@)]
  /\ lpc' = [lpc EXCEPT ![i] = "outside"]
  /\ UNCHANGED <<shared, applied, lockFixed>>

LockNext ==
  \/ \E i \in Callers : CallbackLock(i)
  \/ \E i \in Callers : CallbackStore(i)
  \/ \E i \in Callers : CallbackCount(i)
  \/ \E i \in Callers : CallbackOverall(i)
  \/ \E i \in Callers : CallbackDeliver(i)

LaterIdle == ItemIdle /\ CalcIdle /\ NameIdle /\ FacadeIdle /\ LockIdle

ExtIdle == ResolveIdle /\ FileIdle /\ ProgressIdle /\ LaterIdle

Init ==
  /\ \/ op = "search" /\ SearchInit /\ BatchIdle
     \/ op \in {"download_items", "batch_download"} /\ BatchInit /\ SearchIdle
  /\ ExtIdle

Next == SearchNext \/ BatchNext

Spec == Init /\ [][Next]_vars

\* The runtime polls every future that can make a step, and every awaited
\* I/O operation eventually returns.
Fairness ==
  /\ WF_vars(BatchStart)
  /\ WF_vars(BatchReturn)
  /\ \A i \in 1..MaxItems : WF_vars(Step(i))

\* download_items alone, with the scheduling the runtime guarantees
DownloadItemsInit ==
  op = "download_items" /\ BatchInit /\ SearchIdle /\ ExtIdle

DownloadItemsNext ==
  \/ BatchStart
  \/ \E i \in Indices : Acquire(i)
  \/ \E i \in Indices : Begin(i)
  \/ \E i \in Indices : ResolveUrl(i)
  \/ \E i \in Indices : CreateDir(i)
  \/ \E i \in Indices : Respond(i)
  \/ \E i \in Indices : CreateFile(i)
  \/ \E i \in Indices : StreamChunk(i)
  \/ \E i \in Indices : StreamEnd(i)
  \/ \E i \in Indices : Flush(i)
  \/ BatchReturn

FairSpec == DownloadItemsInit /\ [][DownloadItemsNext]_vars /\ Fairness

\* the quality resolvers, applied to every item and configured tier
ResolveSpecInit ==
  /\ ResolveInit /\ SearchIdle /\ BatchIdle /\ FileIdle /\ ProgressIdle
  /\ LaterIdle

ResolveSpec == ResolveSpecInit /\ [][ResolveNext]_vars

\* the resumable transfer, invoked up to MaxRuns times for one destination
FileSpecInit ==
  /\ op = "download_file" /\ FileInit
  /\ SearchIdle /\ BatchIdle /\ ResolveIdle /\ ProgressIdle /\ LaterIdle

FileSpec == FileSpecInit /\ [][FileNext]_vars

\* the batch record under the snapshots the transfers of a batch notify
ProgressSpecInit ==
  /\ op = "download_items_with_batch_progress" /\ ProgressInit
  /\ SearchIdle /\ BatchIdle /\ ResolveIdle /\ FileIdle /\ LaterIdle

ProgressSpec == ProgressSpecInit /\ [][ProgressNext]_vars

OldIdle ==
  /\ SearchIdle /\ BatchIdle /\ ResolveIdle /\ FileIdle /\ ProgressIdle
  /\ LockIdle

\* one download_item call, with the time its awaits take
ItemSpecInit ==
  /\ op = "download_item" /\ ItemInit
  /\ OldIdle /\ CalcIdle /\ NameIdle /\ FacadeIdle

ItemSpec == ItemSpecInit /\ [][ItemNext]_vars

\* the progress record of one transfer under the two recalculations
CalcSpecInit ==
  /\ op = "calculate" /\ CalcInit
  /\ OldIdle /\ ItemIdle /\ NameIdle /\ FacadeIdle

CalcSpec == CalcSpecInit /\ [][CalcNext]_vars

\* the file name of an item, generated twice
NameSpecInit ==
  /\ op = "generate_filename" /\ NameInit
  /\ OldIdle /\ ItemIdle /\ CalcIdle /\ FacadeIdle

NameSpec == NameSpecInit /\ [][NameNext]_vars

\* one call on a downloader with its providers registered: search, or one of
\* the calls that name a provider or an id; the transfer download_by_id
\* enters is the download_item call above, its awaits taking no time
FacadeSpecInit ==
  /\ \/ op = "search" /\ SearchInit /\ FacadeIdle
     \/ FacadeInit
  /\ BatchIdle /\ ResolveIdle /\ FileIdle /\ ProgressIdle
  /\ ItemIdle /\ CalcIdle /\ NameIdle /\ LockIdle

FacadeSpecNext ==
  \/ SearchNext \/ FacadeNext
  \/ ItemStart \/ ItemCreateDir \/ ItemRespond \/ ItemCreateFile
  \/ ItemChunk \/ ItemChunkFails \/ ItemStreamEnd \/ ItemFlush

FacadeSpec == FacadeSpecInit /\ [][FacadeSpecNext]_vars

\* the progress callback entered by the transfers of one batch
LockSpecInit ==
  /\ LockInit
  /\ SearchIdle /\ BatchIdle /\ ResolveIdle /\ FileIdle /\ ProgressIdle
  /\ ItemIdle /\ CalcIdle /\ NameIdle /\ FacadeIdle

LockSpec == LockSpecInit /\ [][LockNext]_vars

\* =========================================================================
\* Properties
\* =========================================================================

\* ---- vocabulary of the properties
Returned == sresult # <<>>
Succeeded == {p \in 1..Len(providers) : outcomes[p] # <<>> /\ outcomes[p][1].ok}
Finished == {p \in 1..Len(providers) : outcomes[p] # <<>>}
PageOf(p) == outcomes[p][1].page

RECURSIVE SumOver(_, _)
SumOver(S, f) ==
  IF S = {} THEN 0
  ELSE LET x == CHOOSE y \in S : TRUE IN f[x] + SumOver(S \ {x}, f)

TotalOf == [p \in Succeeded |-> PageOf(p).total]
TotalHitsOf == [p \in Succeeded |-> PageOf(p).total_hits]
TotalPagesOf == [p \in Succeeded |-> PageOf(p).total_pages]

\* the successful providers' pages, by ascending registration index
RECURSIVE PagesFrom(_)
PagesFrom(p) ==
  IF p > Len(providers) THEN <<>>
  ELSE (IF p \in Succeeded THEN <<PageOf(p)>> ELSE <<>>) \o PagesFrom(p + 1)

RECURSIVE ItemsFrom(_)
ItemsFrom(p) ==
  IF p > Len(providers) THEN <<>>
  ELSE (IF p \in Succeeded THEN PageOf(p).items ELSE <<>>) \o ItemsFrom(p + 1)

Range(f) == {f[x] : x \in DOMAIN f}
Last(e) == e[Len(e)]
Rank(st) ==
  CASE st = "Starting" -> 1 [] st = "Downloading" -> 2 [] st = "Writing" -> 3
    [] st = "Completed" -> 4 [] OTHER -> 5

\* C1: in download_items and in the DownloadManager batch downloads, at most
\* max_concurrent futures hold a permit at any time.
C1_AtMostNHoldPermit ==
  IsBatch => Cardinality(Holders) <= max_concurrent

C1_Witness ==
  /\ op = "download_items" /\ max_concurrent = 1
  /\ Cardinality(Holders) = 1 /\ waiters # <<>>

\* C2: download_items returns one result per input item, and the i-th result
\* is the outcome of the i-th item's transfer, whatever the completion order.
C2_ResultsInInputOrder ==
  (op = "download_items" /\ bresult # <<>>) =>
    /\ Len(bresult[1]) = Len(items)
    /\ \A i \in Indices :
         /\ bresult[1][i] = result[i][1]
         /\ bresult[1][i].ok <=>
              (emitted[i] # <<>> /\ Last(emitted[i]) = "Completed")
         /\ bresult[1][i].ok => bresult[1][i].path = items[i].id

C2_Witness ==
  /\ op = "download_items" /\ bresult # <<>> /\ overtaken
  /\ Len(items) = 2 /\ bresult[1][1].ok /\ ~bresult[1][2].ok

\* C3: a transfer starts (and emits Starting) only while its future holds a
\* permit; every permit is either free or held by a running future, so the
\* end of a transfer, Ok or Err, gives its permit back; when download_items
\* returns, all max_concurrent permits are free.
C3_PermitScopedToTransfer ==
  (op = "download_items" /\ bpc \in {"joining", "done"}) =>
    /\ \A i \in Indices :
         (emitted[i] # <<>> \/ transfers[i] > 0) =>
           pc[i] \notin {"pending", "waiting"}
    /\ permits + Cardinality(Holders) = max_concurrent
    /\ bpc = "done" => permits = max_concurrent /\ Holders = {}

C3_Witness ==
  /\ op = "download_items" /\ bpc = "done" /\ max_concurrent = 1
  /\ Len(items) = 2 /\ bresult[1][2].ok /\ ~bresult[1][1].ok
  /\ permits = 1

\* C4: once an item's transfer has returned an error, every item is still
\* admitted, runs its transfer once to its own outcome, and download_items
\* returns a result for each item.
C4_FailureDoesNotBlockOthers ==
  (op = "download_items" /\ \E i \in Indices : pc[i] = "done" /\ ~result[i][1].ok)
    ~> (/\ bpc = "done"
        /\ Len(bresult[1]) = Len(items)
        /\ \A j \in Indices : transfers[j] = 1 /\ result[j] # <<>>)

C4_Witness ==
  /\ op = "download_items" /\ bpc = "done" /\ Len(items) = 2
  /\ max_concurrent = 1
  /\ ~bresult[1][1].ok /\ bresult[1][1].err = "DownloadError"
  /\ bresult[1][2].ok /\ transfers[2] = 1

\* C5: the snapshot states of one download_item call start with Starting and
\* move only forward along Starting, Downloading, Writing, Completed; Failed
\* comes directly after Starting or Downloading only; nothing follows
\* Completed or Failed.
C5_SnapshotStatesForward ==
  \A i \in DOMAIN emitted :
    LET e == emitted[i] IN
    /\ e # <<>> => e[1] = "Starting"
    /\ \A k \in 1..(Len(e) - 1) :
         /\ e[k] \notin {"Completed", "Failed"}
         /\ e[k + 1] = "Failed" => e[k] \in {"Starting", "Downloading"}
         /\ e[k + 1] # "Failed" =>
              \/ Rank(e[k + 1]) = Rank(e[k]) + 1
              \/ e[k + 1] = e[k] /\ e[k] = "Downloading"

C5_Witness ==
  \E i \in DOMAIN emitted :
    emitted[i] = <<"Starting", "Downloading", "Downloading", "Writing", "Completed">>

\* C6 (as stated): Downloading is emitted only after a 2xx response has been
\* received, and on a non-2xx response Failed is emitted without any
\* Downloading snapshot before it.
C6_DownloadingOnlyAfter2xx ==
  \A i \in DOMAIN emitted :
    /\ "Downloading" \in Range(emitted[i]) => status[i] = "ok"
    /\ status[i] = "fail" => "Downloading" \notin Range(emitted[i])

\* C6 (amended): download_item emits its first Downloading snapshot once URL
\* resolution and directory creation have succeeded and before the response
\* is known (while the request is in flight no response exists yet); on a
\* non-2xx response Failed is emitted directly after that one Downloading
\* snapshot and the call returns an error.
C6_DownloadingBeforeRequest ==
  (op = "download_items") =>
    \A i \in Indices :
      /\ pc[i] \in {"acquired", "resolve", "mkdir"} =>
           "Downloading" \notin Range(emitted[i])
      /\ pc[i] = "request" =>
           status[i] = "none" /\ emitted[i] = <<"Starting", "Downloading">>
      /\ status[i] # "none" => emitted[i][2] = "Downloading"
      /\ status[i] = "fail" =>
           /\ emitted[i] = <<"Starting", "Downloading", "Failed">>
           /\ result[i] # <<>> /\ ~result[i][1].ok

C6_Witness ==
  /\ op = "download_items"
  /\ \E i \in Indices :
       status[i] = "fail" /\ emitted[i] = <<"Starting", "Downloading", "Failed">>

\* C7: search fails with AllProvidersFailed exactly when at least one provider
\* is registered and every provider call failed; when some call succeeded,
\* search succeeds and its data comes from the successful providers only.
C7_AllProvidersFailedIff ==
  Returned =>
    LET r == sresult[1] IN
    /\ (~r.ok /\ r.err = "AllProvidersFailed") <=>
         (Len(providers) >= 1 /\ Succeeded = {})
    /\ Succeeded # {} =>
         /\ r.ok
         /\ Range(r.value.provider_results) = {PageOf(p) : p \in Succeeded}
         /\ Range(r.value.items) =
              UNION {Range(PageOf(p).items) : p \in Succeeded}

C7_Witness ==
  /\ Returned /\ Len(providers) = 2 /\ Succeeded = {}
  /\ sresult[1].err = "AllProvidersFailed"

\* C8: when search succeeds, total, total_hits and total_pages are the sums
\* of those fields over the successful providers' pages, and page and
\* per_page are the caller's page and limit.
C8_AggregateSums ==
  (Returned /\ sresult[1].ok) =>
    LET v == sresult[1].value IN
    /\ v.total = SumOver(Succeeded, TotalOf)
    /\ v.total_hits = SumOver(Succeeded, TotalHitsOf)
    /\ v.total_pages = SumOver(Succeeded, TotalPagesOf)
    /\ v.page = params.page
    /\ v.per_page = params.limit

C8_Witness ==
  /\ Returned /\ sresult[1].ok
  /\ Cardinality(Succeeded) = 2 /\ Len(providers) = 3
  /\ sresult[1].value.total = 150 /\ sresult[1].value.total_hits = 30
  /\ sresult[1].value.total_pages = 8
  /\ \E p \in Succeeded : PageOf(p).page # params.page

\* C9: items is the concatenation of the successful providers' items in
\* registration order, provider_results their pages in that order, and the
\* label that of the first successful provider, whatever the completion order.
C9_RegistrationOrder ==
  (Returned /\ sresult[1].ok) =>
    LET v == sresult[1].value IN
    /\ v.items = ItemsFrom(1)
    /\ v.provider_results = PagesFrom(1)
    /\ \E p \in Succeeded :
         /\ \A q \in Succeeded : p <= q
         /\ v.provider = providers[p]

C9_Witness ==
  /\ Returned /\ sresult[1].ok
  /\ Len(providers) = 3 /\ Succeeded = {2, 3}
  /\ finishOrder = <<3, 2, 1>>
  /\ providers[2] = "Pexels" /\ providers[3] = "Pixabay"
  /\ sresult[1].value.provider = "Pexels"
  /\ Len(sresult[1].value.items) = 3

\* C10: every registered provider is called exactly once, with the caller's
\* query, limit, page and media kind, and search returns only after every
\* call has finished.
C10_FanOutAndJoin ==
  op = "search" =>
    /\ \A p \in 1..Len(providers) :
         /\ Len(calls[p]) <= 1
         /\ calls[p] # <<>> =>
              /\ calls[p][1].query = params.query
              /\ calls[p][1].limit = params.limit
              /\ calls[p][1].page = params.page
              /\ calls[p][1].method =
                   (IF params.media_type = "Video" THEN "search_videos"
                    ELSE "search_images")
         /\ outcomes[p] # <<>> => Len(calls[p]) = 1
    /\ Returned =>
         \A p \in 1..Len(providers) : Len(calls[p]) = 1 /\ outcomes[p] # <<>>

C10_Witness ==
  /\ Returned /\ Len(providers) = 3 /\ params.media_type = "Video"
  /\ params.page = 2
  /\ finishOrder[1] = 2 /\ 2 \in Succeeded /\ 1 \notin Succeeded

\* ---- vocabulary of the resolver properties
Resolved == resolved # <<>>
Variants == IF urls.video_files = <<>> THEN <<>> ELSE urls.video_files[1]
ImageChain(q) ==
  CASE q = "Thumbnail" -> <<"thumbnail">>
    [] q = "Medium" -> <<"medium", "large", "thumbnail">>
    [] q = "Large" -> <<"large", "medium", "thumbnail">>
    [] q = "Original" -> <<"original", "large", "medium", "thumbnail">>
Present(f) == f = "thumbnail" \/ urls[f] # <<>>
UrlOf(f) == IF f = "thumbnail" THEN urls.thumbnail ELSE urls[f][1]
FirstPresent(chain) ==
  UrlOf(chain[CHOOSE k \in DOMAIN chain :
                 Present(chain[k]) /\ \A j \in 1..(k - 1) : ~Present(chain[j])])
ExactLabelled == {i \in DOMAIN Variants : Variants[i].quality = as_str(quality)}
WideEnough == {i \in DOMAIN Variants : Variants[i].width >= min_width(quality)}
Chosen == {i \in DOMAIN Variants : Variants[i].url = resolved[1].url}

\* C11: for an image item, whatever medium, large and original URLs are
\* present, the resolver returns the first present URL of the chain of the
\* requested tier (thumbnail; medium, large, thumbnail; large, medium,
\* thumbnail; original, large, medium, thumbnail) and never an error.
C11_ImageFallbackChain ==
  (op = "get_image_url" /\ Resolved) =>
    /\ resolved[1].ok
    /\ resolved[1].url = FirstPresent(ImageChain(quality))

C11_Witness ==
  /\ op = "get_image_url" /\ Resolved
  /\ quality = "Original"
  /\ urls.original = <<>> /\ urls.large # <<>> /\ urls.medium # <<>>
  /\ resolved[1].url = "large_url"

\* C12: for a video item, when a variant carries the label of the requested
\* tier the resolver returns the URL of such a variant, also when another
\* variant of smaller width meets the threshold of the tier.
C12_ExactLabelWins ==
  (op = "get_video_url" /\ Resolved /\ ExactLabelled # {}) =>
    /\ resolved[1].ok
    /\ Chosen \cap ExactLabelled # {}

C12_Witness ==
  /\ op = "get_video_url" /\ Resolved
  /\ \E i \in ExactLabelled : \E j \in WideEnough \ ExactLabelled :
       /\ Variants[j].width < Variants[i].width
       /\ resolved[1].url = Variants[i].url

\* C13: for a video item none of whose variants carries the label of the
\* requested tier, the resolver returns a variant of the smallest width that
\* meets the threshold when one meets it, and a variant of the largest width
\* of the list otherwise.
C13_ClosestAboveElseWidest ==
  (op = "get_video_url" /\ Resolved /\ Variants # <<>> /\ ExactLabelled = {}) =>
    /\ resolved[1].ok
    /\ IF WideEnough # {}
       THEN \E i \in Chosen \cap WideEnough :
              \A j \in WideEnough : Variants[i].width <= Variants[j].width
       ELSE \E i \in Chosen :
              \A j \in DOMAIN Variants : Variants[j].width <= Variants[i].width

C13_Witness ==
  /\ op = "get_video_url" /\ Resolved
  /\ quality = "Small" /\ ExactLabelled = {}
  /\ {Variants[i].width : i \in DOMAIN Variants} = {640, 1280, 1920}
  /\ \E i \in Chosen : Variants[i].width = 1280

\* C14: the video resolver fails, with InvalidQuality, exactly when the item
\* has no variant (the list is absent or empty); otherwise it returns the URL
\* of a listed variant, whatever the tier.
C14_InvalidQualityIffNoVariant ==
  (op = "get_video_url" /\ Resolved) =>
    /\ ~resolved[1].ok <=> Variants = <<>>
    /\ ~resolved[1].ok => resolved[1].err = "InvalidQuality"
    /\ resolved[1].ok => Chosen # {}

C14_Witness ==
  /\ op = "get_video_url" /\ Resolved
  /\ urls.video_files = << <<>> >>
  /\ ~resolved[1].ok

\* ---- vocabulary of the resumable transfer properties
Existing == IF before = <<>> THEN 0 ELSE Len(before[1])
Requested ==
  \/ fpc \in {"request", "stream"}
  \/ fpc = "done" /\ (response # <<>> \/ fresult[1].err = "Request")
IsOpen == mode # "none"
BodyLength == Len(response[1].body) + downloaded - range_start
DeclaredLength ==
  IF response[1].content_length = <<>> THEN 0 ELSE response[1].content_length[1]
ReportedTotals == {reported[k][2] : k \in DOMAIN reported}

\* C15 as stated: with a file of N > 0 bytes at the destination the request
\* carries bytes=N-, the file is opened for appending and every total told to
\* the callback is the length of the response body plus N; with no file
\* there is no range header, the file is created and the total is the length
\* of the response body.
C15_TotalIsBodyLengthPlusExisting ==
  (op = "download_file" /\ Requested) =>
    /\ (before # <<>> /\ Existing > 0) =>
         /\ headers = <<RangeFrom(Existing)>>
         /\ IsOpen => /\ mode = "append"
                      /\ ReportedTotals \subseteq {BodyLength + Existing}
    /\ before = <<>> =>
         /\ headers = <<>>
         /\ IsOpen => /\ mode = "create"
                      /\ Len(file[1]) = downloaded
                      /\ ReportedTotals \subseteq {BodyLength}

\* C15, amended: as above, the total being the Content-Length the response
\* declares, taken as 0 when it declares none, plus N.
C15_TotalIsDeclaredLengthPlusExisting ==
  (op = "download_file" /\ Requested) =>
    /\ (before # <<>> /\ Existing > 0) =>
         /\ headers = <<RangeFrom(Existing)>>
         /\ IsOpen => /\ mode = "append"
                      /\ ReportedTotals \subseteq {DeclaredLength + Existing}
    /\ before = <<>> =>
         /\ headers = <<>>
         /\ IsOpen => /\ mode = "create"
                      /\ Len(file[1]) = downloaded
                      /\ ReportedTotals \subseteq {DeclaredLength}

C15_Witness ==
  /\ op = "download_file" /\ IsOpen
  /\ Existing > 0 /\ mode = "append"
  /\ response[1].content_length = <<>>
  /\ ReportedTotals = {Existing}

\* C16: a transfer that found N > 0 bytes, sent the range request and got a
\* 200 response ends with a file that is exactly the response body.
C16_NonPartialIsFreshDownload ==
  (/\ op = "download_file" /\ fpc = "done" /\ fresult[1].ok
   /\ Existing > 0 /\ headers # <<>>
   /\ response[1].status = 200) =>
    file = <<source>>

\* C17: when the invocation before was interrupted with the first N bytes of
\* the source written, this invocation requests the range from N and, once it
\* returned Ok, the file is the complete source.
C17_ResumeRestoresSource ==
  (/\ op = "download_file" /\ runs > 1 /\ interrupted
   /\ before # <<>> /\ Existing <= Len(source)
   /\ before[1] = SubSeq(source, 1, Existing)) =>
    /\ Requested => headers = <<RangeFrom(Existing)>>
    /\ (fpc = "done" /\ fresult[1].ok) => file = <<source>>

\* ---- vocabulary of the batch record properties
Updated == op = "download_items_with_batch_progress" /\ last # <<>>
Records == batch_progress.item_progress
RecordsOf(b, id) == SelectSeq(b.item_progress, LAMBDA p : p.item_id = id)
RecordsBut(b, id) == SelectSeq(b.item_progress, LAMBDA p : p.item_id # id)
InFlight == {k \in DOMAIN Records : Records[k].state = "Downloading"}
RECURSIVE SumOfPercentages(_)
SumOfPercentages(S) ==
  IF S = {} THEN 0
  ELSE LET k == CHOOSE k \in S : TRUE
       IN  Records[k].percentage + SumOfPercentages(S \ {k})
\* overall_percentage = x / y, both fractions of integers
OverallIs(x, y) ==
  batch_progress.overall_percentage.num * y
    = x * batch_progress.overall_percentage.den

C19_CompletedNeverLowersOverall ==
  (Updated /\ last[1].state = "Completed") =>
    ~lowered

\* C20: the record keeps one entry per item id; an update leaves the entry
\* of the id of its snapshot equal to that snapshot, and the entries of the
\* other ids as they were.
C20_LastWriteWinsPerId ==
  [][(op = "download_items_with_batch_progress" /\ batch_progress' # batch_progress) =>
       /\ \A j, k \in DOMAIN batch_progress'.item_progress :
            batch_progress'.item_progress[j].item_id
              = batch_progress'.item_progress[k].item_id => j = k
       /\ RecordsOf(batch_progress', last'[1].item_id) = <<last'[1]>>
       /\ RecordsBut(batch_progress', last'[1].item_id)
            = RecordsBut(batch_progress, last'[1].item_id)]_vars

C20_Witness ==
  /\ Updated
  /\ \E i, j \in ProgressIndices :
       /\ i < j /\ pitems[i] = pitems[j] /\ phase[j] = "Writing"
       /\ phase[i] = "ended"
       /\ last[1] = Snapshot(pitems[j], "Writing", 100)
  /\ RecordsBut(batch_progress, last[1].item_id) # <<>>

\* ---- vocabulary of the claims about the progress record
KnownTotal(p) == p.total_bytes[1]
TotalKnown(p) == p.total_bytes # <<>> /\ KnownTotal(p) > 0
TotalUnknown(p) == p.total_bytes = <<>>
Recalculated == cpc \in {"loop", "final"}

\* C21: every recalculation leaves percentage equal to downloaded / total *
\* 100 when the total is known (and positive) and leaves percentage as it
\* found it when the total is unknown; so with an unknown total a percentage
\* above 0 never drops back to 0.
C21_PercentageSetOrKept ==
  [][/\ TotalKnown(prog') =>
          SameValue(prog'.percentage,
                    Fraction(prog'.downloaded_bytes * 100, KnownTotal(prog')))
     /\ TotalUnknown(prog') => prog'.percentage = prog.percentage
     /\ (TotalUnknown(prog') /\ Positive(prog.percentage)) =>
          Positive(prog'.percentage)]_vars

C21_Witness ==
  /\ Recalculated /\ TotalUnknown(prog)
  /\ prog.downloaded_bytes > 0
  /\ prog.percentage = Fraction(50, 1)

\* C22: after calculate_eta the ETA is (total - downloaded) / speed when the
\* total is known, speed > 0 and downloaded < total, and unknown in every
\* other case.
C22_EtaUnknownOtherwise ==
  cpc = "loop" =>
    IF /\ prog.total_bytes # <<>> /\ prog.speed_bps > 0
       /\ prog.downloaded_bytes < KnownTotal(prog)
    THEN prog.eta_secs =
           <<Fraction(KnownTotal(prog) - prog.downloaded_bytes, prog.speed_bps)>>
    ELSE prog.eta_secs = <<>>

\* ---- vocabulary of the claims about one download_item call
Refused == ipc = "done" /\ http # 0 /\ ~is_success(http)
Untouched == output \in Outputs
LoopSnapshots == SelectSeq(notified, LAMBDA s : s.in_loop)
Notified(st) ==
  \E k \in DOMAIN notified : notified[k].state = st /\ ~notified[k].in_loop

\* C23: when the response status is not 2xx, the last snapshot is Failed and
\* carries the HTTP status, the call returns an error, and the destination
\* file is as the call found it: not created, not truncated, not written.
C23_RefusedLeavesDestination ==
  Refused =>
    /\ notified # <<>>
    /\ Last(notified).state = "Failed"
    /\ Last(notified).message = <<"HTTP", http>>
    /\ ireturn # <<>> /\ ~ireturn[1].ok
    /\ Untouched

C23_Witness ==
  Refused /\ http = 404 /\ output.kind = "old" /\ Len(notified) = 3

\* C25: two consecutive snapshots from inside the chunk loop are at least
\* 100 ms apart, while the snapshot of every state transition the call has
\* made (Starting, Downloading, Failed, Writing, Completed) was emitted,
\* whatever the time since the snapshot before it.
C25_ThrottleSparesTransitions ==
  /\ \A k \in 1..(Len(LoopSnapshots) - 1) :
       LoopSnapshots[k + 1].at - LoopSnapshots[k].at >= ThrottleMs
  /\ ipc \notin {"idle", "start"} => Notified("Starting")
  /\ sent > 0 => Notified("Downloading")
  /\ (http # 0 /\ ~is_success(http)) => Notified("Failed")
  /\ ipc = "flush" => Notified("Writing")
  /\ ireturn = <<ItemOk>> => Notified("Writing") /\ Notified("Completed")

C25_Witness ==
  /\ Len(LoopSnapshots) >= 2
  /\ ireturn = <<ItemOk>>
  /\ \E k \in DOMAIN notified :
       /\ notified[k].state = "Writing"
       /\ notified[k].at - Last(LoopSnapshots).at < ThrottleMs

\* C24: a download_item call sends at most one HTTP request, and
\* download_items enters the transfer of every input item exactly once: an
\* item whose transfer failed is not entered again, and the error of its
\* transfer is the result reported at its position.
C24_OneRequestOneTransfer ==
  op = "download_items" =>
    /\ \A i \in Indices :
         /\ requests[i] <= 1 /\ transfers[i] <= 1
         /\ result[i] # <<>> => transfers[i] = 1
    /\ bpc = "done" =>
         \A i \in Indices :
           /\ transfers[i] = 1
           /\ result[i] # <<>> /\ bresult[1][i] = result[i][1]

C24_Witness ==
  /\ op = "download_items" /\ bpc = "done" /\ Len(items) = 2
  /\ ~bresult[1][1].ok /\ bresult[1][1].err = "HttpError"
  /\ requests[1] = 1 /\ transfers[1] = 1
  /\ bresult[1][2].ok /\ requests[2] = 1

\* ---- vocabulary of the claim about file names
AllowedInName == {"a", "Z", "7", "e-acute", "_", "-"}
Kept(title) == SelectSeq(title, LAMBDA c : c \in AllowedInName)
ExtensionOf(item) == IF item.media_type = "Image" THEN "jpg" ELSE "mp4"
Prefix(item) == to_lowercase(item.provider)

\* C26: the name is provider_id.ext with original names and
\* provider_sanitized_id.ext otherwise (provider in lower case), where
\* sanitized is the title reduced to its alphanumeric, '_' and '-' characters,
\* or the raw id when nothing is left; a second run for the same item and
\* configuration gives the same name.
C26_FilenameIsFunctionOfItem ==
  filename # <<>> =>
    /\ use_original_names =>
         filename[1] = <<Prefix(nitem), "_", nitem.id, ".", ExtensionOf(nitem)>>
    /\ ~use_original_names =>
         filename[1] =
           <<Prefix(nitem), "_">>
             \o (IF Kept(nitem.title) = <<>> THEN <<nitem.id>>
                                            ELSE Kept(nitem.title))
             \o <<"_", nitem.id, ".", ExtensionOf(nitem)>>
    /\ again # <<>> => again = filename

C26_Witness ==
  /\ again # <<>> /\ ~use_original_names
  /\ nitem.title = <<" ", "/">> /\ nitem.provider = "Pixabay"
  /\ filename[1] = <<"pixabay", "_", "42", "_", "42", ".", "jpg">>

\* ---- vocabulary of the claims about the calls that name a provider or an id
Named == {p \in 1..Len(providers) : providers[p] = target}
Found == \E k \in DOMAIN answers : answers[k]
KnownNames == {"pixabay", "pexels"}
QueryDone == qpc = "done" /\ qreturn # <<>>

C28_NoProvidersOnEmptyList ==
  providers = <<>> =>
    /\ (op = "search" /\ sresult # <<>>) =>
         ~sresult[1].ok /\ sresult[1].err = "NoProviders"
    /\ (op \in {"search_from_provider", "download_by_id"} /\ QueryDone) =>
         ~qreturn[1].ok /\ qreturn[1].err = "NoProviders"

\* C29: download_by_id asks the providers in registration order, enters the
\* transfer of the item of the first provider whose lookup succeeds and asks
\* no provider after it; when every lookup failed it returns the not-found
\* error and no transfer was started.
C29_FirstLookupThatSucceeds ==
  op = "download_by_id" =>
    /\ \A k \in DOMAIN asked :
         asked[k].provider = k /\ asked[k].call = "get_media"
    /\ \A k \in DOMAIN answers :
         answers[k] => k = Len(answers) /\ Len(asked) = k
    /\ started = IF Found THEN 1 ELSE 0
    /\ (QueryDone /\ Found) => qreturn = ireturn
    /\ (qpc = "done" /\ ~Found) =>
         /\ Len(answers) = Len(providers)
         /\ qreturn = <<QueryErr("Download", <<"no media">>)>>
         /\ ipc = "idle"

C29_Witness ==
  /\ op = "download_by_id" /\ QueryDone
  /\ Len(providers) = 3 /\ answers = <<FALSE, TRUE>>
  /\ started = 1 /\ qreturn[1].ok

\* C30: when the API key is empty, whatever the name, or the name is not a
\* known provider, the call of add_provider_by_name_and_apikey constructs no
\* provider, leaves the provider list as it was and calls and starts nothing.
C30_FailedConstructionAddsNothing ==
  [][(/\ op = "add_provider_by_name_and_apikey"
      /\ qpc = "start" /\ qpc' = "done"
      /\ api_key = "" \/ to_lowercase(target) \notin KnownNames)
     => /\ ~qreturn'[1].ok
        /\ providers' = providers
        /\ asked' = <<>> /\ started' = 0 /\ ipc' = "idle"]_vars

C30_Witness ==
  /\ op = "add_provider_by_name_and_apikey" /\ QueryDone
  /\ api_key = "" /\ target = "Pixabay"
  /\ ~qreturn[1].ok /\ providers = <<"Pexels">>

\* ---- vocabulary of the claims about the counters of the batch record
RecordsIn(st) == {k \in DOMAIN Records : Records[k].state = st}
EndedWith(r) == {i \in ProgressIndices : phase[i] = r}
DistinctIds == \A i, j \in ProgressIndices : pitems[i] = pitems[j] => i = j
BatchReturned ==
  op = "download_items_with_batch_progress" /\ ppc = "done" /\ last # <<>>

\* C33: in every batch snapshot delivered, downloading_items, completed_items
\* and failed_items are the numbers of records in state Downloading,
\* Completed and Failed.
C33_CountersCountRecords ==
  Updated =>
    /\ batch_progress.downloading_items = Cardinality(RecordsIn("Downloading"))
    /\ batch_progress.completed_items = Cardinality(RecordsIn("Completed"))
    /\ batch_progress.failed_items = Cardinality(RecordsIn("Failed"))

\* C35: when the call returns for a batch of pairwise distinct items, the last
\* batch snapshot has completed_items = number of Ok results and failed_items
\* = number of Err results, so that their sum is total_items; and with every
\* result Ok, overall_percentage is 100.
C35_FinalCountersCountResults ==
  (BatchReturned /\ DistinctIds) =>
    /\ batch_progress.completed_items = Cardinality(EndedWith("completed"))
    /\ batch_progress.failed_items = Cardinality(EndedWith("ended"))
    /\ batch_progress.completed_items + batch_progress.failed_items
         = batch_progress.total_items
    /\ EndedWith("ended") = {} => OverallIs(100, 1)

\* C36: while the one item of a batch advances through Downloading, Writing
\* and Completed, no batch snapshot has a lower overall_percentage than the
\* snapshot before it.
C36_OverallNeverDecreases ==
  (Updated /\ Len(pitems) = 1
     /\ last[1].state \in {"Downloading", "Writing", "Completed"}) =>
    ~lowered

\* C40: in every batch snapshot delivered, overall_percentage lies within
\* 0..100 (every item snapshot reports a percentage within 0..100).
C40_OverallWithinBounds ==
  Updated =>
    /\ batch_progress.overall_percentage.den > 0
    /\ batch_progress.overall_percentage.num >= 0
    /\ batch_progress.overall_percentage.num
         <= 100 * batch_progress.overall_percentage.den

C40_Witness ==
  /\ Updated /\ ~DistinctIds
  /\ batch_progress.total_items = 3
  /\ batch_progress.completed_items = 2
  /\ \E k \in RecordsIn("Downloading") : Records[k].percentage = 100
  /\ OverallIs(100, 1)

\* C34: a finished download_item call returned Ok exactly when its last
\* snapshot is Completed, and Err exactly when its last snapshot is Failed.
C34_ResultMatchesLastSnapshot ==
  (ipc = "done" /\ ireturn # <<>>) =>
    /\ notified # <<>>
    /\ ireturn[1].ok <=> Last(notified).state = "Completed"
    /\ ~ireturn[1].ok <=> Last(notified).state = "Failed"

\* ---- vocabulary of the claim about the order of the video tiers
TierOrder == <<"Tiny", "Small", "Medium", "Large", "Original">>
TierRank(q) == CHOOSE k \in DOMAIN TierOrder : TierOrder[k] = q
TierLabels == {as_str(q) : q \in VideoQuality}
Unlabelled == \A i \in DOMAIN Variants : Variants[i].quality \notin TierLabels
WidthAt(q) ==
  LET r == get_video_url(urls, q)
      i == CHOOSE i \in DOMAIN Variants : Variants[i].url = r.url
  IN  Variants[i].width
Widest == CHOOSE w \in {Variants[i].width : i \in DOMAIN Variants} :
            \A j \in DOMAIN Variants : Variants[j].width <= w

\* C38: for a non-empty variant list without tier labels, no higher tier
\* resolves to a narrower variant than the tier resolved, and Original
\* resolves to a variant of the largest width.
C38_WidthGrowsWithTier ==
  (op = "get_video_url" /\ Resolved /\ Variants # <<>> /\ Unlabelled) =>
    /\ resolved[1].ok
    /\ \A q \in VideoQuality :
         TierRank(quality) <= TierRank(q) =>
           \A i \in Chosen : Variants[i].width <= WidthAt(q)
    /\ quality = "Original" => \A i \in Chosen : Variants[i].width = Widest


\* C37: whatever max_concurrent is, a call of download_items whose
\* transfers all terminate eventually returns: every item is admitted and
\* the batch does not wait forever for a permit.
C37_BatchEventuallyReturns ==
  (op = "download_items" /\ bpc = "start") ~>
    (bpc = "done" /\ \A i \in Indices : transfers[i] = 1)


\* ---- vocabulary of the claim about the destinations of a batch
\* the path the i-th transfer writes: output_dir joined with the generated name
DestinationOf(i) == TransferOk(items[i]).path
\* the i-th transfer has created its file and has not flushed it yet
FileOpen(i) == pc[i] \in {"stream", "flush"}

\* C39: during download_items no two transfers that have their files open
\* at the same time write to the same destination path.
C39_NoSharedDestination ==
  op = "download_items" =>
    \A i, j \in Indices :
      (i # j /\ FileOpen(i) /\ FileOpen(j)) => DestinationOf(i) # DestinationOf(j)


\* ---- vocabulary of the claim about the bytes of one transfer
RECURSIVE Concatenation(_)
Concatenation(cs) == IF cs = <<>> THEN <<>> ELSE Head(cs) \o Concatenation(Tail(cs))
Streaming == ipc \in {"stream", "flush"}

\* C32: while download_item streams, the destination file holds the chunks
\* received so far joined in the order of receipt, downloaded_bytes is the
\* length of that content, and downloaded_bytes never decreases from one
\* snapshot to the next.
C32_ContentIsChunksInOrder ==
  /\ Streaming =>
       /\ output.kind = "new"
       /\ output.content = Concatenation(parts)
       /\ downloaded_bytes = Len(output.content)
  /\ \A k \in 1..(Len(notified) - 1) :
       notified[k].downloaded_bytes <= notified[k + 1].downloaded_bytes
  /\ \A k \in DOMAIN notified :
       notified[k].in_loop => \E n \in 1..Len(parts) :
         notified[k].downloaded_bytes = Len(Concatenation(SubSeq(parts, 1, n)))

C32_Witness ==
  /\ ipc = "flush" /\ parts = <<<<"b", "c">>, <<"a">>>>
  /\ output.content = <<"b", "c", "a">> /\ downloaded_bytes = 3
  /\ \E k \in DOMAIN notified :
       notified[k].in_loop /\ notified[k].downloaded_bytes = 2
  /\ Last(notified).state = "Writing" /\ Last(notified).downloaded_bytes = 3


\* ---- vocabulary of the claim about the lock of the batch record
InCallback == {i \in Callers : lpc[i] # "outside"}
RECURSIVE AfterUpdates(_)
\* the batch record after the updates of the item snapshots ss, one by one
AfterUpdates(ss) ==
  IF ss = <<>> THEN NewBatchProgress(MaxConcurrent)
  ELSE BatchUpdate(AfterUpdates(SubSeq(ss, 1, Len(ss) - 1)), ss[Len(ss)])

\* C31: the updates of the batch record run one at a time under the lock:
\* at most one transfer is inside the callback, every item snapshot that
\* left the callback produced exactly one batch snapshot, and the k-th batch
\* snapshot is the record after the first k updates, none lost.
C31_UpdatesAreAtomic ==
  op = "progress_callback" =>
    /\ Cardinality(InCallback) <= 1
    /\ Len(applied) = Len(delivered) + Cardinality(InCallback)
    /\ \A k \in DOMAIN delivered :
         delivered[k] = AfterUpdates(SubSeq(applied, 1, k))
    /\ InCallback = {} => shared = AfterUpdates(applied)

C31_Witness ==
  /\ op = "progress_callback" /\ InCallback = {}
  /\ \A i \in Callers : todo[i] = <<>>
  /\ Len(delivered) >= 4
  /\ applied[1].item_id # applied[2].item_id
  /\ applied[2].item_id # applied[3].item_id
  /\ delivered[Len(delivered)].completed_items = 1
  /\ delivered[Len(delivered)].failed_items = 1

====
